---- MODULE Spec2Model ----
(***************************************************************************)
(* State-machine model of the voice-recognition engine's storage and       *)
(* decision layer: the file index (BinarySearchTree), the file manager     *)
(* (FileManagementInterface), speaker enrollment, the recognition engine   *)
(* (SpeakerRecognition) and the service facade (VoiceRecognitionService).  *)
(***************************************************************************)
EXTENDS Integers, Sequences, FiniteSets, TLC

VARIABLES
    disk,               \* the files under base_directory: path -> content
    root,               \* BinarySearchTree.root
    enrollment_cache,   \* VoiceRecognitionService._enrollment_cache (its keys)
    recognition_cache,  \* VoiceRecognitionService._recognition_cache (its keys)
    writer,             \* the enrollment in progress, step by step (concurrent use)
    ret,                \* what the last call returned or raised
    history,            \* per speaker, what was asked of the store so far
    sessions,           \* the streaming sessions started on the service
    live,               \* run_live_recognition: audio_queue and the consumer loop
    extraction,         \* a feature extraction call: its input and what it produced
    gmm,                \* GMMGaussianModel objects and the last call made on one
    manager,            \* a FileManagementInterface used directly: its directory,
                        \* its index and the last call made on it
    bst_file            \* BinarySearchTree.serialized_file, data/bst_data.pkl:
                        \* <<>> when there is no file, else <<its content>>

vars == <<disk, root, enrollment_cache, recognition_cache, writer, ret, history,
          sessions, live, extraction, gmm, manager, bst_file>>

\* The state of streaming and of the live runner.
streaming == <<sessions, live>>

(***************************************************************************)
(* Inputs.                                                                 *)
(***************************************************************************)
\* Speaker ids.  The index orders files by the md5 of their relative path,
\* so the ids are concrete names and Md5Rank is their real md5 order.
Speakers == {"bob", "dave"}

\* Number of distinct recordings a speaker can be enrolled or queried with.
NumAudio == 2

Audio == 1..NumAudio

\* An audio source: the sequence of its non-empty chunks, here at most one
\* chunk holding recording x; <<>> is a source that yields no samples.
AudioSources == {<<>>} \cup {<<x>> : x \in Audio}

\* score_threshold: <<>> is None, <<t>> a float.
Thresholds == {<<>>} \cup {<<t>> : t \in {0 - 20, 0 - 10, 0}}

\* The one configuration value used (EnrollmentConfig() / RecognitionConfig()).
DefaultConfig == "default"

NoSpeaker == "None"

\* float("-inf"): below every score a model returns.
NegInf == -1000

(***************************************************************************)
(* Paths and file ids.                                                     *)
(***************************************************************************)
ModelPath(s) == [dir |-> "models", speaker |-> s, suffix |-> "_gmm_model.pkl"]

MetadataPath(s) == [dir |-> "metadata", speaker |-> s, suffix |-> "_metadata.txt"]

\* hashlib.md5(relative_path.encode()).hexdigest(), by its rank in string
\* order among the paths of Speakers:
\*   0ef9193fa05b7d141305b722a2ec1bbc  metadata/dave_metadata.txt
\*   5d390c4f81585c55d23e6c60342cd3b0  metadata/bob_metadata.txt
\*   73d2c8d210634368789c1adc7f09aa4b  models/dave_gmm_model.pkl
\*   e7dba0aa3fe14faae56854af019a368b  models/bob_gmm_model.pkl
Md5Rank(path) ==
    CASE path = MetadataPath("dave") -> 1
      [] path = MetadataPath("bob")  -> 2
      [] path = ModelPath("dave")    -> 3
      [] path = ModelPath("bob")     -> 4

(***************************************************************************)
(* The voiceprint model and its scores.                                    *)
(***************************************************************************)
\* GMMGaussianModel.train: the fitted parameters, identified by the
\* recording they were fitted on.
Train(a) == [fitted_on |-> a]

\* pickle.dumps(model): a byte string, here a header and the parameters.
serialize_model(model) == <<"pickle", model>>

\* Whether pickle.loads accepts the bytes; it raises on a truncated byte
\* string (EOFError) and on a str read from a text file (TypeError).
Unpickles(content) == Len(content) = 2 /\ content[1] = "pickle"

deserialize_model(content) == content[2]

\* GaussianMixture.score(mfcc_features): mean log-likelihood of the query
\* recording x under the model; highest for the recording it was fitted on.
ModelScore(model, x) ==
    LET d == IF model.fitted_on >= x THEN model.fitted_on - x ELSE x - model.fitted_on
    IN  0 - 10 - 20 * d

\* The metadata text enroll_speaker writes.
MetadataContent(s) == <<"text", s>>

(***************************************************************************)
(* BinarySearchTree.  A node is <<data, left, right>>, None is <<>>.       *)
(***************************************************************************)
None == <<>>

TreeNode(file_id, file_path) == <<[file_id |-> file_id, file_path |-> file_path], None, None>>

RECURSIVE insert(_, _, _)
insert(node, file_id, file_path) ==
    IF node = None THEN TreeNode(file_id, file_path)
    ELSE IF file_id < node[1].file_id
         THEN <<node[1], insert(node[2], file_id, file_path), node[3]>>
    ELSE IF file_id > node[1].file_id
         THEN <<node[1], node[2], insert(node[3], file_id, file_path)>>
    ELSE <<[node[1] EXCEPT !.file_path = file_path], node[2], node[3]>>

RECURSIVE search_recursive(_, _)
search_recursive(current, file_id) ==
    IF current = None THEN None
    ELSE IF current[1].file_id = file_id THEN current
    ELSE IF current[1].file_id < file_id THEN search_recursive(current[3], file_id)
    ELSE search_recursive(current[2], file_id)

\* The right child itself, not the leftmost node under it.
find_min_stops(node) == node

RECURSIVE find_min(_)
find_min(node) == IF node[2] # None THEN find_min(node[2]) ELSE node

\* node.file_id = min_larger_node.file_id
\* node.file_timestamp = min_larger_node.file_timestamp
\* on the fields a record has; every other field of the node stays.
copy_successor(data, min_larger_data) ==
    [f \in DOMAIN data |->
        IF f \in {"file_id", "file_timestamp"} THEN min_larger_data[f] ELSE data[f]]

RECURSIVE delete_recursive(_, _)
delete_recursive(node, file_id) ==
    IF node = None THEN None
    ELSE IF file_id < node[1].file_id
         THEN <<node[1], delete_recursive(node[2], file_id), node[3]>>
    ELSE IF file_id > node[1].file_id
         THEN <<node[1], node[2], delete_recursive(node[3], file_id)>>
    ELSE IF node[2] = None /\ node[3] = None THEN None
    ELSE IF node[2] = None THEN node[3]
    ELSE IF node[3] = None THEN node[2]
    ELSE LET min_larger_node == find_min(node[3])
         IN  <<copy_successor(node[1], min_larger_node[1]),
               node[2],
               delete_recursive(node[3], min_larger_node[1].file_id)>>

delete_node(tree, file_id) ==
    IF tree = None THEN None ELSE delete_recursive(tree, file_id)

(***************************************************************************)
(* FileManagementInterface over a store st = [disk, root].  The models/    *)
(* and metadata/ directories exist (cli.setup_environment).                *)
(***************************************************************************)
Exists(d, path) == path \in DOMAIN d

WriteFile(d, path, content) ==
    [q \in DOMAIN d \cup {path} |-> IF q = path THEN content ELSE d[q]]

RemoveFile(d, path) == [q \in DOMAIN d \ {path} |-> d[q]]

\* add_file when neither the write nor the insert raises.
add_file(st, file_path, file_content) ==
    [disk |-> WriteFile(st.disk, file_path, file_content),
     root |-> insert(st.root, Md5Rank(file_path), file_path)]

\* add_file when open() or write() raises IOError: the except branch
\* removes the file if it exists and re-raises; the index is not touched.
add_file_io_error(st, file_path) ==
    [disk |-> RemoveFile(st.disk, file_path), root |-> st.root]

\* The record removed from the index and the file left on disk.
delete_file_index_only(st, file_id) ==
    [disk |-> st.disk, root |-> delete_node(st.root, file_id)]

\* delete_file: both FileNotFoundError cases are caught inside and return.
delete_file(st, file_id) ==
    LET node == search_recursive(st.root, file_id)
    IN  IF node = None THEN st
        ELSE IF ~Exists(st.disk, node[1].file_path) THEN st
        ELSE [disk |-> RemoveFile(st.disk, node[1].file_path),
              root |-> delete_node(st.root, file_id)]

\* get_file_content: <<>> stands for the None it returns when the id is not
\* indexed or the indexed path is not on disk, <<content>> for the content.
get_file_content(st, file_id) ==
    LET node == search_recursive(st.root, file_id)
    IN  IF node = None THEN <<>>
        ELSE IF ~Exists(st.disk, node[1].file_path) THEN <<>>
        ELSE <<st.disk[node[1].file_path]>>

\* The file opened with the mode of a writer, which truncates it.
opened_for_writing(d, path) == WriteFile(d, path, <<>>)

\* with open(node.file_path, file_mode) as f: return f.read(), file_mode
\* 'rb' or 'r': the disk after the read.
opened_for_reading(d, path) == d

\* The store get_file_content leaves: the search walks the index, the file
\* is opened for reading if it is there.
store_after_get_file_content(st, file_id) ==
    LET node == search_recursive(st.root, file_id)
    IN  IF node = None THEN st
        ELSE IF ~Exists(st.disk, node[1].file_path) THEN st
        ELSE [disk |-> opened_for_reading(st.disk, node[1].file_path), root |-> st.root]

\* get_file_metadata: <<>> for None, else the dictionary, which has every
\* field of the record but speaker_name.
get_file_metadata(st, file_id) ==
    LET node == search_recursive(st.root, file_id)
    IN  IF node = None THEN <<>>
        ELSE <<[f \in DOMAIN node[1] \ {"speaker_name"} |-> node[1][f]]>>

RECURSIVE list_all_files(_, _)
list_all_files(st, node) ==
    IF node = None THEN <<>>
    ELSE list_all_files(st, node[2])
         \o get_file_metadata(st, node[1].file_id)
         \o list_all_files(st, node[3])

(***************************************************************************)
(* SpeakerRecognition.                                                     *)
(***************************************************************************)
\* os.listdir(models_base): the model files, in any order.
ModelFiles(d) == {p \in DOMAIN d : p.dir = "models"}

Orderings(S) ==
    {o \in [1..Cardinality(S) -> S] : \A i, j \in 1..Cardinality(S) : o[i] = o[j] => i = j}

\* The comparison reversed.
Better_reversed(score, best_score) == score < best_score

\* if score > best_score
Better(score, best_score) == score > best_score

\* One pass of the loop of _score_models over the listing, from position i.
\* acc.raised: deserialize_model raised (the exception leaves the loop);
\* acc.loaded: the contents handed to deserialize_model so far.
RECURSIVE score_loop(_, _, _, _, _)
score_loop(st, listing, i, x, acc) ==
    IF i > Len(listing) \/ acc.raised THEN acc
    ELSE LET model_file == listing[i]
             serialized_model == get_file_content(st, Md5Rank(model_file))
         IN  IF serialized_model = <<>>
             THEN score_loop(st, listing, i + 1, x, acc)
             ELSE IF ~Unpickles(serialized_model[1])
             THEN [acc EXCEPT !.raised = TRUE,
                              !.loaded = Append(@, <<model_file.speaker, serialized_model[1]>>)]
             ELSE LET score == ModelScore(deserialize_model(serialized_model[1]), x)
                      speaker_name == model_file.speaker
                      scored == [acc EXCEPT
                                    !.speaker_scores = Append(@, <<speaker_name, score>>),
                                    !.loaded = Append(@, <<speaker_name, serialized_model[1]>>)]
                  IN  score_loop(st, listing, i + 1, x,
                          IF Better(score, acc.best_score)
                          THEN [scored EXCEPT !.best_score = score,
                                              !.recognized_speaker = speaker_name]
                          ELSE scored)

score_models(st, listing, x) ==
    score_loop(st, listing, 1, x,
               [raised |-> FALSE, recognized_speaker |-> NoSpeaker,
                best_score |-> NegInf, speaker_scores |-> <<>>, loaded |-> <<>>])

\* The store the loop of _score_models leaves, from position i of the
\* listing: one get_file_content per model file, up to the file whose
\* deserialize_model raises.
RECURSIVE store_after_scoring(_, _, _)
store_after_scoring(st, listing, i) ==
    IF i > Len(listing) THEN st
    ELSE LET file_id == Md5Rank(listing[i])
             serialized_model == get_file_content(st, file_id)
             opened == store_after_get_file_content(st, file_id)
         IN  IF serialized_model # <<>> /\ ~Unpickles(serialized_model[1])
             THEN opened
             ELSE store_after_scoring(opened, listing, i + 1)

\* A RecognitionComputation, or None (is_none) when scoring raised.
Computation(speaker, best_score, scores, rejected) ==
    [is_none |-> FALSE, speaker |-> speaker, best_score |-> best_score,
     scores |-> scores, rejected |-> rejected]

NoComputation ==
    [is_none |-> TRUE, speaker |-> NoSpeaker, best_score |-> NegInf,
     scores |-> <<>>, rejected |-> FALSE]

\* The comparison made inclusive.
IsRejected_inclusive(score_threshold, best_score) ==
    score_threshold # <<>> /\ best_score <= score_threshold[1]

IsRejected(score_threshold, best_score) ==
    score_threshold # <<>> /\ best_score < score_threshold[1]

evaluate_scores(st, listing, x, score_threshold) ==
    LET r == score_models(st, listing, x)
    IN  IF r.raised THEN NoComputation
        ELSE IF r.speaker_scores = <<>>
        THEN Computation(NoSpeaker, NegInf, <<>>, TRUE)
        ELSE Computation(r.recognized_speaker, r.best_score, r.speaker_scores,
                         IsRejected(score_threshold, r.best_score))

(***************************************************************************)
(* VoiceRecognitionService.                                                *)
(***************************************************************************)
\* {name: score for name, score in outcome.scores}
ScoresDict(scores) ==
    [name \in {scores[i][1] : i \in 1..Len(scores)} |->
        LET last == CHOOSE i \in 1..Len(scores) :
                        /\ scores[i][1] = name
                        /\ \A j \in 1..Len(scores) : scores[j][1] = name => j <= i
        IN  scores[last][2]]

RecognitionResult(speaker_id, score, scores, rejected) ==
    [speaker_id |-> speaker_id, score |-> score, scores |-> scores, rejected |-> rejected]

\* The engine's candidate passed through.
ExposedSpeaker_passthrough(outcome) == outcome.speaker

ExposedSpeaker(outcome) == IF outcome.rejected THEN NoSpeaker ELSE outcome.speaker

\* The empty case built with the dataclass default rejected = False.
recognize_signal_default_flag(outcome) ==
    IF outcome.is_none \/ outcome.scores = <<>>
    THEN RecognitionResult(NoSpeaker, NegInf, <<>>, FALSE)
    ELSE RecognitionResult(ExposedSpeaker(outcome), outcome.best_score,
                           ScoresDict(outcome.scores),
                           outcome.rejected \/ outcome.speaker = NoSpeaker)

recognize_signal(outcome) ==
    IF outcome.is_none \/ outcome.scores = <<>>
    THEN RecognitionResult(NoSpeaker, NegInf, <<>>, TRUE)
    ELSE RecognitionResult(ExposedSpeaker(outcome), outcome.best_score,
                           ScoresDict(outcome.scores),
                           outcome.rejected \/ outcome.speaker = NoSpeaker)

\* list_speakers: one summary per indexed path that ends in _metadata.txt.
list_speakers(st) ==
    LET entries == list_all_files(st, st.root)
        kept == SelectSeq(entries, LAMBDA e : e.file_path.suffix = "_metadata.txt")
    IN  [i \in 1..Len(kept) |->
            [speaker_id |-> kept[i].file_path.speaker, metadata_path |-> kept[i].file_path]]

\* delete_speaker: the model first, then the metadata.
delete_speaker(st, speaker_id) ==
    delete_file(delete_file(st, Md5Rank(ModelPath(speaker_id))),
                Md5Rank(MetadataPath(speaker_id)))

\* SpeakerEnrollment.enroll_speaker when nothing raises.
enroll_speaker(st, speaker_name, a) ==
    add_file(add_file(st, ModelPath(speaker_name), serialize_model(Train(a))),
             MetadataPath(speaker_name), MetadataContent(speaker_name))

(***************************************************************************)
(* _BufferingRecognitionSession.                                           *)
(***************************************************************************)
\* The sessions started on the service; "live" is the one the live runner
\* starts.
Sessions == {"s1", "s2", "live"}

\* The RecognitionConfig values sessions are started with: sample_rate in
\* samples per second, frame_size in seconds as <<numerator, denominator>>;
\* name stands for the value as a key of _recognition_cache.
\* sample_rate x frame_size is 3 samples in the first, 2.5 in the second;
\* frame_step is 2 samples in the first, 1 in the second.
SessionConfig ==
    [name |-> "session", sample_rate |-> 4, frame_size |-> <<3, 4>>,
     frame_step |-> <<1, 2>>, fft_size |-> 4, num_filters |-> 2, num_ceps |-> 2]

FractionalConfig ==
    [name |-> "fractional", sample_rate |-> 5, frame_size |-> <<1, 2>>,
     frame_step |-> <<1, 5>>, fft_size |-> 4, num_filters |-> 2, num_ceps |-> 2]

\* start_session(config, threshold) for each session.
ConfigOf(k) == IF k = "s2" THEN FractionalConfig ELSE SessionConfig

\* The most samples a session is fed between two closes.
MaxSamples == 4

\* A chunk is the sequence of its samples; <<>> is an array of size 0.
Chunks == {<<>>, <<1>>, <<1, 2>>}

\* One sample taken as enough.
min_samples_one(config) == 1

\* self._min_samples = int(sample_rate * frame_size)
min_samples(config) ==
    (config.sample_rate * config.frame_size[1]) \div config.frame_size[2]

\* sum(chunk.size for chunk in self._frames)
RECURSIVE total_samples(_)
total_samples(frames) ==
    IF frames = <<>> THEN 0 ELSE Len(Head(frames)) + total_samples(Tail(frames))

\* Only the chunk that arrived last.
concatenate_last(frames) ==
    IF frames = <<>> THEN <<>> ELSE frames[Len(frames)]

\* np.concatenate(self._frames)
RECURSIVE concatenate(_)
concatenate(frames) ==
    IF frames = <<>> THEN <<>> ELSE Head(frames) \o concatenate(Tail(frames))

\* The comparison made inclusive.
StillCollecting_inclusive(total, minimum) == total <= minimum

\* if total_samples < self._min_samples: return None
StillCollecting(total, minimum) == total < minimum

\* The recording a signal is heard as: what extract_features keeps of it,
\* here its first sample.
Recording(signal) == signal[1]

\* __init__: an empty buffer.  heard is the history of the session: every
\* sample given to consume since the session started or was last closed.
NewSession(config, threshold) ==
    [frames |-> <<>>, heard |-> <<>>, config |-> config, threshold |-> threshold]

\* The buffer left as it is.
close_keeps(frames) == frames

\* close: self._frames.clear()
close(frames) == <<>>

\* Every session given the same buffer.
SetFrames_shared(all, k, frames) == [j \in DOMAIN all |-> [all[j] EXCEPT !.frames = frames]]

\* self._frames is an attribute of the one session.
SetFrames(all, k, frames) == [all EXCEPT ![k].frames = frames]

(***************************************************************************)
(* run_live_recognition.                                                   *)
(***************************************************************************)
\* The most chunks the capture callback delivers in one run.
MaxChunks == 4

\* The chunks of the input stream: blocksize = chunk_samples >= 1 samples.
LiveChunks == {<<a>> : a \in Audio}

\* The element taken from the newest end.
queue_get_newest(q) == [chunk |-> q[Len(q)], rest |-> SubSeq(q, 1, Len(q) - 1)]

\* audio_queue.get(): the oldest element.
queue_get(q) == [chunk |-> Head(q), rest |-> Tail(q)]

\* audio_queue.put(chunk)
queue_put(q, chunk) == Append(q, chunk)

\* audio_queue = queue.Queue(): no maxsize is given, and 0 means no limit.
maxsize == 0

\* A queue that is full once it holds one chunk.
queue_full_at_one(q) == Len(q) >= 1

\* The condition audio_queue.put waits on: the queue holds maxsize chunks.
queue_full(q) == maxsize > 0 /\ Len(q) >= maxsize

\* The runner waiting in audio_queue.get() on an empty queue.  enqueued and
\* delivered are the history of the run: the chunks the callback put, and
\* the chunks given to session.consume; consuming counts the consume calls
\* in progress; saved is what bst.serialize_bst() left in the index file.
LiveStart ==
    [pc |-> "get", audio_queue |-> <<>>, chunk |-> <<>>,
     enqueued |-> <<>>, delivered |-> <<>>, consuming |-> 0, saved |-> <<>>]

(***************************************************************************)
(* Framing.                                                                *)
(***************************************************************************)
\* The longest signal framed.
MaxSignal == 4

\* Signals: the non-empty sequences of at most MaxSignal samples; a sample
\* is 1 or 2, so that a padding zero is told from a sample.
RECURSIVE SignalsOfLength(_)
SignalsOfLength(n) ==
    IF n = 0 THEN {<<>>}
    ELSE {Append(s, x) : s \in SignalsOfLength(n - 1), x \in {1, 2}}

Signals == UNION {SignalsOfLength(n) : n \in 1..MaxSignal}

\* Framing(frame_size, frame_step, sample_rate): seconds as <<numerator,
\* denominator>>.  Frame lengths of 2 and 3 samples, steps of 1 and 2.
FramingConfigs ==
    {[sample_rate |-> 4, frame_size |-> fs, frame_step |-> st] :
        fs \in {<<1, 2>>, <<3, 4>>}, st \in {<<1, 4>>, <<1, 2>>}}

\* int(seconds * sample_rate)
to_samples(seconds, sample_rate) == (seconds[1] * sample_rate) \div seconds[2]

\* np.ceil(float(a) / b) for b > 0
ceil_div(a, b) == 0 - ((0 - a) \div b)

\* num_frames = int(np.ceil(float(signal_length - frame_length) / frame_step)) + 1
num_frames(signal_length, frame_length, frame_step) ==
    ceil_div(signal_length - frame_length, frame_step) + 1

\* np.concatenate((signal, np.zeros((pad_signal_length - signal_length,))))
padded_signal(signal, pad_signal_length) ==
    [i \in 1..pad_signal_length |-> IF i <= Len(signal) THEN signal[i] ELSE 0]

\* Framing.frame_signal: the frames, one per i in range(0, num_frames), each
\* padded_signal[start_index : start_index + frame_length].
frame_signal(signal, config) ==
    LET frame_length == to_samples(config.frame_size, config.sample_rate)
        frame_step == to_samples(config.frame_step, config.sample_rate)
        n == num_frames(Len(signal), frame_length, frame_step)
        padded == padded_signal(signal, n * frame_step + frame_length)
    IN  [i \in 1..n |-> SubSeq(padded, (i - 1) * frame_step + 1,
                                      (i - 1) * frame_step + frame_length)]

\* No extraction call made.
NoExtraction ==
    [pc |-> "none", signal |-> <<>>, config |-> <<>>, frames |-> <<>>, features |-> <<>>]

(***************************************************************************)
(* The feature extractor (AudioFeatureExtractor).  Pre-emphasis and the    *)
(* Hamming window are computed in hundredths; the spectrum, the Mel        *)
(* filterbank, the logarithm and the DCT are kept as terms over the frame   *)
(* they are computed from, with the shape the code gives them.             *)
(***************************************************************************)
\* AudioFeatureExtractor(sample_rate, frame_size, frame_step, fft_size,
\* num_filters, num_ceps): the framing configurations, with an FFT of 4
\* points, 2 or 3 Mel filters and 2 retained coefficients.
ExtractorConfigs ==
    {[sample_rate |-> c.sample_rate, frame_size |-> c.frame_size,
      frame_step |-> c.frame_step, fft_size |-> 4, num_filters |-> nf,
      num_ceps |-> 2] : c \in FramingConfigs, nf \in {2, 3}}

\* PreEmphasisFilter.alpha = 0.97, in hundredths
alpha == 97

\* PreEmphasisFilter.apply_filter: y[0] = x[0], y[t] = x[t] - alpha * x[t-1]
apply_filter(signal) ==
    [i \in 1..Len(signal) |->
        IF i = 1 THEN 100 * signal[1] ELSE 100 * signal[i] - alpha * signal[i - 1]]

\* cos(2 * pi * n / (frame_length - 1)) for the frame lengths 2 and 3
cos_2pi(n, frame_length) ==
    IF frame_length = 2 THEN 1 ELSE IF n % 2 = 0 THEN 1 ELSE 0 - 1

\* HammingWindow._compute_hamming_window: 0.54 - 0.46 * cos(...), in hundredths
hamming_window(frame_length) ==
    [n \in 1..frame_length |-> 54 - 46 * cos_2pi(n - 1, frame_length)]

\* The outcome of a call that raised.
Raised == [raised |-> TRUE, value |-> <<>>]

Returned(value) == [raised |-> FALSE, value |-> value]

\* HammingWindow.apply: frames * self.hamming_window.  np.array([]) has
\* shape (0,), which does not broadcast against a window of length > 1.
hamming_apply(frames, frame_length) ==
    IF Len(frames) = 0 /\ frame_length # 1 THEN Raised
    ELSE Returned([i \in 1..Len(frames) |->
            [n \in 1..frame_length |-> frames[i][n] * hamming_window(frame_length)[n]]])

\* FFTProcessor.compute_fft and compute_power_spectrum: per frame, the
\* fft_size // 2 + 1 bins of |rfft(frame, n=fft_size)| ** 2.
compute_power_spectrum(frames, fft_size) ==
    [i \in 1..Len(frames) |->
        [b \in 1..(fft_size \div 2 + 1) |-> [power |-> b, of |-> frames[i]]]]

\* MelScaleFilterbank.apply: np.dot(filterbank, power_spectrum.T).T, one
\* value per filter and frame.
mel_apply(power_spectrum, num_filters) ==
    [i \in 1..Len(power_spectrum) |->
        [m \in 1..num_filters |-> [mel |-> m, of |-> power_spectrum[i]]]]

\* LogarithmCompression.apply: np.log(mel_spectrum + epsilon), elementwise
log_apply(mel_spectrum) ==
    [i \in 1..Len(mel_spectrum) |->
        [m \in 1..Len(mel_spectrum[i]) |-> [log |-> mel_spectrum[i][m]]]]

\* DCTProcessor.compute_dct: dct(..., axis=1)[:, :num_ceps]
compute_dct(log_mel_spectrum, num_ceps) ==
    [i \in 1..Len(log_mel_spectrum) |->
        LET row == log_mel_spectrum[i]
            coefficients == [k \in 1..Len(row) |-> [dct |-> k, of |-> row]]
        IN  SubSeq(coefficients, 1, IF num_ceps < Len(row) THEN num_ceps ELSE Len(row))]

\* The stages of extract_features after the window, on the windowed frames.
mfcc(windowed_frames, config) ==
    compute_dct(log_apply(mel_apply(
        compute_power_spectrum(windowed_frames, config.fft_size),
        config.num_filters)), config.num_ceps)

\* AudioFeatureExtractor.extract_features(signal), signal non-empty
extract_features(signal, config) ==
    LET frame_length == to_samples(config.frame_size, config.sample_rate)
        frames == frame_signal(apply_filter(signal), config)
        windowed_frames == hamming_apply(frames, frame_length)
    IN  IF windowed_frames.raised THEN Raised
        ELSE Returned(mfcc(windowed_frames.value, config))

(***************************************************************************)
(* Audio sources that deliver samples.                                     *)
(***************************************************************************)
\* The sources: at most two chunks, each empty or of one or two samples.
SampleSources == {<<>>} \cup {<<c>> : c \in Chunks} \cup {<<c, d>> : c \in Chunks, d \in Chunks}

\* A configuration with a frame of 3 samples and a step of 2.
ShortConfig ==
    [name |-> "short", sample_rate |-> 4, frame_size |-> <<3, 4>>,
     frame_step |-> <<1, 2>>, fft_size |-> 4, num_filters |-> 2, num_ceps |-> 2]

\* The loop of _collect_signal: the chunks with array.size != 0
RECURSIVE non_empty_chunks(_)
non_empty_chunks(source) ==
    IF source = <<>> THEN <<>>
    ELSE IF Len(Head(source)) = 0 THEN non_empty_chunks(Tail(source))
    ELSE <<Head(source)>> \o non_empty_chunks(Tail(source))

\* VoiceRecognitionService._collect_signal: ValueError if no chunk is
\* left, else np.concatenate(chunks).
collect_signal(source) ==
    LET chunks == non_empty_chunks(source)
    IN  IF chunks = <<>> THEN Raised ELSE Returned(concatenate(chunks))

\* SpeakerRecognition.recognize_signal: None when extract_features raises,
\* else _evaluate_scores on the features.
recognize_signal_of(st, listing, signal, config, score_threshold) ==
    IF extract_features(signal, config).raised THEN NoComputation
    ELSE evaluate_scores(st, listing, Recording(signal), score_threshold)

(***************************************************************************)
(* GMMGaussianModel objects.  An object is [model |-> self.model]; a      *)
(* method gives the object after the call, what it raised and returned.    *)
(***************************************************************************)
\* Two objects, as create_gmm_model() makes one per enrollment and one
\* per scored file.
GmmObjects == {"m1", "m2"}

\* GMMGaussianModel.__init__: self.model = None
GMMGaussianModel == [model |-> None]

\* What a method returns: nothing (None), or a score, a byte string or
\* labels.
NoValue == [score |-> 0, bytes |-> <<>>, labels |-> <<>>]

\* The outcome of a method call on self.
Outcome(self, raised, value) == [self |-> self, raised |-> raised, value |-> value]

\* GMMGaussianModel.train(data)
gmm_train(self, data) == Outcome([self EXCEPT !.model = Train(data)], "", NoValue)

\* GMMGaussianModel.serialize_model()
gmm_serialize_model(self) ==
    IF self.model = None THEN Outcome(self, "ValueError", NoValue)
    ELSE Outcome(self, "", [NoValue EXCEPT !.bytes = serialize_model(self.model)])

\* GMMGaussianModel.deserialize_model(serialized_model)
gmm_deserialize_model(self, serialized_model) ==
    Outcome([self EXCEPT !.model = deserialize_model(serialized_model)], "", NoValue)

\* GaussianMixture.predict(data): the component labels of the samples
Labels(model, data) == [labels_of |-> data, under |-> model]

\* GMMGaussianModel.predict(data)
gmm_predict(self, data) ==
    IF self.model = None THEN Outcome(self, "ValueError", NoValue)
    ELSE Outcome(self, "", [NoValue EXCEPT !.labels = Labels(self.model, data)])

\* The model refitted on the data it scores.
scored_model_refit(model, data) == Train(data)

\* The estimator after GaussianMixture.score(data): score only reads the
\* fitted parameters.
scored_model(model, data) == model

\* gmm_model.model.score(mfcc_features), as _score_models calls it: an
\* attribute of None when the object holds no model.
gmm_score(self, data) ==
    IF self.model = None THEN Outcome(self, "AttributeError", NoValue)
    ELSE Outcome([self EXCEPT !.model = scored_model(self.model, data)], "",
                 [NoValue EXCEPT !.score = ModelScore(self.model, data)])

\* The objects as constructed, no call made, no byte string returned yet.
\* loaded_from[k] is the history of object k: the model whose serialization
\* it was last loaded from, None if it was never loaded or trained since.
GmmStart ==
    [objects |-> [k \in GmmObjects |-> GMMGaussianModel],
     loaded_from |-> [k \in GmmObjects |-> None],
     serialized |-> {},
     op |-> "init", object |-> "", data |-> 0, raised |-> "", value |-> NoValue]

\* The state after a call op(data) on object k with the given outcome.
GmmAfter(op, k, data, outcome, loaded_from, serialized) ==
    [objects |-> [gmm.objects EXCEPT ![k] = outcome.self],
     loaded_from |-> [gmm.loaded_from EXCEPT ![k] = loaded_from],
     serialized |-> serialized,
     op |-> op, object |-> k, data |-> data,
     raised |-> outcome.raised, value |-> outcome.value]

(***************************************************************************)
(* The index and the file manager with every field of a record.  Optional  *)
(* fields hold None, PyInt(n) or PyStr(s).                                 *)
(***************************************************************************)
PyInt(n) == <<"int", n>>

PyStr(s) == <<"str", s>>

\* TreeNode.__init__, with its parameters in the order of the signature.
TreeNodeInit(file_id, file_timestamp, file_path, file_size, file_type, access_frequency, speaker_name, version, permissions, checksum, creation_date, description) ==
    <<[file_id |-> file_id, file_timestamp |-> file_timestamp,
       file_path |-> file_path, file_size |-> file_size, file_type |-> file_type,
       access_frequency |-> access_frequency, speaker_name |-> speaker_name,
       version |-> version, permissions |-> permissions, checksum |-> checksum,
       creation_date |-> creation_date, description |-> description],
      None, None>>

\* The while loop of insert: new_node linked where the walk falls off the
\* tree, or the node with the file_id updated from the arguments kw.
RECURSIVE insert_loop(_, _, _)
insert_loop(current, new_node, kw) ==
    IF current = None THEN new_node
    ELSE IF kw.file_id < current[1].file_id
         THEN <<current[1], insert_loop(current[2], new_node, kw), current[3]>>
    ELSE IF kw.file_id > current[1].file_id
         THEN <<current[1], current[2], insert_loop(current[3], new_node, kw)>>
    ELSE <<[current[1] EXCEPT !.file_timestamp = kw.file_timestamp,
                              !.file_path = kw.file_path,
                              !.file_size = kw.file_size,
                              !.file_type = kw.file_type,
                              !.version = kw.version,
                              !.permissions = kw.permissions,
                              !.checksum = kw.checksum,
                              !.creation_date = kw.creation_date,
                              !.description = kw.description],
           current[2], current[3]>>

\* BinarySearchTree.insert(**kw): new_node = TreeNode(...) of eleven
\* positional arguments, so that description takes its default None.
insert_node(tree, kw) ==
    insert_loop(tree,
                TreeNodeInit(kw.file_id, kw.file_timestamp, kw.file_path, kw.file_size,
                             kw.file_type, kw.access_frequency, kw.version,
                             kw.permissions, kw.checksum, kw.creation_date,
                             kw.description, None),
                kw)

\* BinarySearchTree.search: the iterative walk.
RECURSIVE search(_, _)
search(current, file_id) ==
    IF current = None THEN None
    ELSE IF file_id = current[1].file_id THEN current
    ELSE IF file_id < current[1].file_id THEN search(current[2], file_id)
    ELSE search(current[3], file_id)

\* base_directory of the file manager
BaseDirectory == "tmp"

\* Relative paths, as their parts between dots: b.wav, a.txt and d.tar.gz.
FilePaths == {<<"b", "wav">>, <<"a", "txt">>, <<"d", "tar", "gz">>}

\* hashlib.md5(file_path.encode()).hexdigest(), by its rank in string order:
\*   41814856f8652327dd700e430300bcef  b.wav
\*   a5e54d1fd7bb69a228ef0dcd2431367e  a.txt
\*   d56b363a654bb08222a98cb24a6bb53b  d.tar.gz
\*   de02f7e3ccb842c93c86e40048e3717b  /x.txt
\*   fdbd2af4ac13ed318c131dfc39df4b3b  configs/b.wav
FileId(file_path) ==
    CASE file_path = <<"b", "wav">> -> 1
      [] file_path = <<"a", "txt">> -> 2
      [] file_path = <<"d", "tar", "gz">> -> 3
      [] file_path = <<"/", "x", "txt">> -> 4
      [] file_path = <<"configs/", "b", "wav">> -> 5

FileIds == {FileId(p) : p \in FilePaths}

\* os.path.join(self.base_directory, file_path)
FullPath(file_path) == <<BaseDirectory, file_path>>

\* file_content: a str or bytes, as its characters or bytes.
FileContents ==
    {[type |-> "str", items |-> <<"a", "b">>],
     [type |-> "str", items |-> <<"e-acute">>],
     [type |-> "bytes", items |-> <<"a", "b">>]}

\* The bytes a character takes in the file: open(full_path, 'w') encodes
\* text as UTF-8.
EncodedLength(c) == IF c = "e-acute" THEN 2 ELSE 1

RECURSIVE EncodedSize(_)
EncodedSize(items) ==
    IF items = <<>> THEN 0 ELSE EncodedLength(Head(items)) + EncodedSize(Tail(items))

\* os.path.getsize(full_path) after f.write(file_content)
getsize(file_content) ==
    IF file_content.type = "bytes" THEN Len(file_content.items)
    ELSE EncodedSize(file_content.items)

\* int(time.time()) at a call
Times == {1, 2}

\* add_file(file_path, file_content) at time file_timestamp, when neither
\* the write nor the insert raises.
add_file_at(st, file_path, file_content, file_timestamp) ==
    LET full_path == FullPath(file_path)
    IN  [disk |-> WriteFile(st.disk, full_path, file_content),
         root |-> insert_node(st.root,
                     [file_id |-> FileId(file_path),
                      file_timestamp |-> file_timestamp,
                      file_path |-> full_path,
                      file_size |-> getsize(file_content),
                      file_type |-> file_path[Len(file_path)],
                      access_frequency |-> 0,
                      version |-> None,
                      permissions |-> None,
                      checksum |-> None,
                      creation_date |-> PyInt(file_timestamp),
                      description |-> PyStr(<<"Added file at ", full_path>>)])]

\* The file manager on an empty directory with an empty index, no call made.
ManagerStart ==
    [disk |-> <<>>, root |-> None, op |-> "init", file_path |-> <<>>, file_id |-> 0,
     file_content |-> <<>>, time |-> 0, fresh |-> FALSE, follows_add |-> FALSE,
     returned |-> <<>>, raised |-> ""]

\* The manager after a call op that left the store st.
ManagerAfter(st, op, file_id) ==
    [ManagerStart EXCEPT !.disk = st.disk, !.root = st.root, !.op = op,
                         !.file_id = file_id]

(***************************************************************************)
(* The index used directly: insert, delete_node and the two searches.      *)
(***************************************************************************)
\* The file ids inserted.
TreeIds == 1..4

\* The arguments of an insert of file_id at time now: every optional
\* argument given, each with a value of its own.
InsertArguments(file_id, now) ==
    [file_id |-> file_id,
     file_timestamp |-> now,
     file_path |-> <<BaseDirectory, file_id>>,
     file_size |-> 2,
     file_type |-> "pkl",
     access_frequency |-> 0,
     version |-> PyStr("v1"),
     permissions |-> PyStr("rw"),
     checksum |-> PyStr("c0de"),
     creation_date |-> PyInt(now),
     description |-> PyStr(<<"file", file_id>>)]

\* The file ids of the nodes of a tree, in order of the walk, repeated if
\* two nodes share one.
RECURSIVE in_order(_)
in_order(node) ==
    IF node = None THEN <<>>
    ELSE in_order(node[2]) \o <<node[1].file_id>> \o in_order(node[3])

\* The record of a node, <<>> for no node.
RecordOf(node) == IF node = None THEN <<>> ELSE <<node[1]>>

\* add_file when open() or f.write() raises: the except branch removes
\* full_path if it exists and re-raises; bst.insert is not reached.
add_file_raises(st, file_path) ==
    [disk |-> RemoveFile(st.disk, FullPath(file_path)), root |-> st.root]

\* The updates a call may make to one record.
MaxUpdates == 1

\* node.file_timestamp = int(time.time()); node.file_size = len(new_content);
\* node.access_frequency += 1, on the node search_recursive finds.
RECURSIVE update_record(_, _, _, _)
update_record(current, file_id, new_content, now) ==
    IF current = None THEN None
    ELSE IF file_id = current[1].file_id
         THEN <<[current[1] EXCEPT !.file_timestamp = now,
                                   !.file_size = Len(new_content.items),
                                   !.access_frequency = @ + 1],
                current[2], current[3]>>
    ELSE IF file_id < current[1].file_id
         THEN <<current[1], update_record(current[2], file_id, new_content, now), current[3]>>
    ELSE <<current[1], current[2], update_record(current[3], file_id, new_content, now)>>

\* update_file(file_id, new_content) at time now: the FileNotFoundError of
\* an id that is not indexed is caught and the call returns; open(..., 'w')
\* creates the file when it is not on disk.
update_file(st, file_id, new_content, now) ==
    LET node == search_recursive(st.root, file_id)
    IN  IF node = None THEN st
        ELSE [disk |-> WriteFile(st.disk, node[1].file_path, new_content),
              root |-> update_record(st.root, file_id, new_content, now)]

\* Paths add_file refuses: /x.txt and configs/b.wav, the leading "/" and
\* "configs/" kept as parts of their own.
RefusedPaths == {<<"/", "x", "txt">>, <<"configs/", "b", "wav">>}

\* Contents that are neither str nor bytes: None and the list ['a', 'b'].
OtherContents ==
    {[type |-> "NoneType", items |-> <<>>], [type |-> "list", items |-> <<"a", "b">>]}

\* os.path.isabs(file_path)
isabs(file_path) == file_path[1] = "/"

\* Only absolute paths refused.
path_refused_if_absolute(file_path) == isabs(file_path)

\* if os.path.isabs(file_path) or file_path.startswith('configs/')
path_refused(file_path) == isabs(file_path) \/ file_path[1] = "configs/"

\* isinstance(file_content, (str, bytes))
is_str_or_bytes(file_content) == file_content.type \in {"str", "bytes"}

\* add_file(file_path, file_content) at time now, from its first line: the
\* store it leaves and the exception it raises, "" for none.
add_file_call(st, file_path, file_content, now) ==
    IF path_refused(file_path) THEN [store |-> st, raised |-> "ValueError"]
    ELSE IF ~is_str_or_bytes(file_content) THEN [store |-> st, raised |-> "TypeError"]
    ELSE [store |-> add_file_at(st, file_path, file_content, now), raised |-> ""]

(***************************************************************************)
(* The index on disk.  pickle.dump writes the tree as bytes that           *)
(* pickle.load reads back as an equal tree.                                *)
(***************************************************************************)
\* BinarySearchTree.deserialize_bst, called by __init__: the root the file
\* holds, None if there is no file.
deserialize_bst(file) == IF file = <<>> THEN None ELSE file[1][2]

\* BinarySearchTree.serialize_bst: an empty tree removes the file, any
\* other tree is dumped to it.
serialize_bst(tree, file) == IF tree = None THEN <<>> ELSE <<<<"pickle", tree>>>>

(***************************************************************************)
(* The state machine.                                                      *)
(***************************************************************************)
Store == [disk |-> disk, root |-> root]

Idle == [pc |-> "idle", speaker |-> NoSpeaker, audio |-> 0]

\* history[s].enrolled: the recording of s's last completed enrollment, 0
\* when there is none or s was deleted since; deleted: delete_speaker(s) was
\* called and s not enrolled since; half_written: the recording of an
\* enrollment of s that failed after its model was written, 0 when none;
\* reenrolled: the last change of the store was an enrollment of s that
\* replaced a completed one.
NoHistory == [enrolled |-> 0, deleted |-> FALSE, half_written |-> 0, reenrolled |-> FALSE]

\* The history once the store changes again.
Older == [t \in Speakers |-> [history[t] EXCEPT !.reenrolled = FALSE]]

Enrolled == {s \in Speakers : history[s].enrolled # 0}

\* What a call left behind: its name and arguments, the exception it raised
\* ("" when it returned), and its return value.
Ret(op, speaker) ==
    [op |-> op, speaker |-> speaker, raised |-> "", signal |-> 0, threshold |-> <<>>,
     outcome |-> NoComputation, loaded |-> <<>>,
     result |-> RecognitionResult(NoSpeaker, NegInf, <<>>, FALSE),
     listing |-> <<>>, ok |-> FALSE, again |-> FALSE,
     session |-> "", chunk |-> <<>>, passed |-> <<>>, returned |-> FALSE,
     discarded |-> <<>>]

InitService ==
    /\ disk = <<>>
    /\ root = None
    /\ enrollment_cache = {}
    /\ recognition_cache = {}
    /\ writer = Idle
    /\ ret = Ret("init", NoSpeaker)
    /\ history = [s \in Speakers |-> NoHistory]
    /\ sessions = [k \in Sessions |-> NewSession(ConfigOf(k), <<>>)]
    /\ live = LiveStart
    /\ gmm = GmmStart
    /\ manager = ManagerStart
    /\ bst_file = <<>>

Init ==
    /\ InitService
    /\ extraction = NoExtraction

\* SpeakerEnrollment.enroll_speaker(speaker_name, wav) on a recording a;
\* again: s had a completed enrollment before this one.
EnrollSpeaker(s, a) ==
    /\ LET st == enroll_speaker(Store, s, a)
       IN  /\ disk' = st.disk
           /\ root' = st.root
    /\ ret' = [Ret("enroll_speaker", s) EXCEPT !.ok = TRUE, !.signal = a,
                                               !.again = (history[s].enrolled # 0)]
    /\ history' = [Older EXCEPT ![s] = [NoHistory EXCEPT
                                            !.enrolled = a,
                                            !.reenrolled = (history[s].enrolled # 0)]]
    /\ UNCHANGED <<enrollment_cache, recognition_cache, writer, sessions, live, extraction, gmm, manager, bst_file>>

\* VoiceRecognitionService.enroll: _collect_signal, _get_enrollment, then
\* the call of enroll_from_signal, which SpeakerEnrollment does not define.
ServiceEnroll(s, source) ==
    /\ IF source = <<>>
       THEN /\ ret' = [Ret("enroll", s) EXCEPT !.raised = "ValueError"]
            /\ UNCHANGED enrollment_cache
       ELSE /\ enrollment_cache' = enrollment_cache \cup {DefaultConfig}
            /\ ret' = [Ret("enroll", s) EXCEPT !.raised = "AttributeError",
                                               !.signal = source[1]]
    /\ UNCHANGED <<disk, root, recognition_cache, writer, history, sessions, live, extraction, gmm, manager, bst_file>>

\* VoiceRecognitionService.recognize on an audio source, with the listing
\* os.listdir returns this time.
RecognizeOn(source, threshold, listing) ==
    /\ IF source = <<>>
       THEN /\ ret' = [Ret("recognize", NoSpeaker) EXCEPT !.raised = "ValueError",
                                                          !.threshold = threshold]
            /\ UNCHANGED recognition_cache
       ELSE LET outcome == evaluate_scores(Store, listing, source[1], threshold)
            IN  /\ recognition_cache' = recognition_cache \cup {DefaultConfig}
                /\ ret' = [Ret("recognize", NoSpeaker) EXCEPT
                              !.signal = source[1], !.threshold = threshold,
                              !.outcome = outcome,
                              !.loaded = score_models(Store, listing, source[1]).loaded,
                              !.result = recognize_signal(outcome)]
    /\ LET st == IF source = <<>> THEN Store ELSE store_after_scoring(Store, listing, 1)
       IN  /\ disk' = st.disk
           /\ root' = st.root
    /\ UNCHANGED <<enrollment_cache, writer, history, sessions, live, extraction, gmm, manager, bst_file>>

Recognize ==
    \E source \in AudioSources, threshold \in Thresholds,
       listing \in Orderings(ModelFiles(disk)) :
         RecognizeOn(source, threshold, listing)

ListSpeakers ==
    /\ ret' = [Ret("list_speakers", NoSpeaker) EXCEPT !.listing = list_speakers(Store)]
    /\ UNCHANGED <<disk, root, enrollment_cache, recognition_cache, writer, history, sessions, live, extraction, gmm, manager, bst_file>>

DeleteSpeaker(s) ==
    /\ LET st == delete_speaker(Store, s)
       IN  /\ disk' = st.disk
           /\ root' = st.root
    /\ ret' = Ret("delete_speaker", s)
    /\ history' = [Older EXCEPT ![s] = [NoHistory EXCEPT !.deleted = TRUE]]
    /\ UNCHANGED <<enrollment_cache, recognition_cache, writer, sessions, live, extraction, gmm, manager, bst_file>>

Next ==
    \/ \E s \in Speakers, a \in Audio : EnrollSpeaker(s, a)
    \/ \E s \in Speakers, source \in AudioSources : ServiceEnroll(s, source)
    \/ Recognize
    \/ ListSpeakers
    \/ \E s \in Speakers : DeleteSpeaker(s)

Spec == Init /\ [][Next]_vars

(***************************************************************************)
(* Enrollment with an I/O failure.                                         *)
(***************************************************************************)
\* enroll_speaker when the model is stored and add_file of the metadata
\* raises IOError: add_file cleans up the metadata file and re-raises,
\* enroll_speaker catches the exception and returns False.
enroll_speaker_metadata_fails(st, speaker_name, a) ==
    add_file_io_error(add_file(st, ModelPath(speaker_name), serialize_model(Train(a))),
                      MetadataPath(speaker_name))

EnrollSpeakerFails(s, a) ==
    /\ LET st == enroll_speaker_metadata_fails(Store, s, a)
       IN  /\ disk' = st.disk
           /\ root' = st.root
    /\ ret' = [Ret("enroll_speaker", s) EXCEPT !.ok = FALSE, !.signal = a]
    /\ history' = [Older EXCEPT ![s].half_written = a]
    /\ UNCHANGED <<enrollment_cache, recognition_cache, writer, sessions, live, extraction, gmm, manager, bst_file>>

NextFault ==
    \/ \E s \in Speakers, a \in Audio : EnrollSpeaker(s, a)
    \/ \E s \in Speakers, a \in Audio : EnrollSpeakerFails(s, a)
    \/ Recognize

SpecFault == Init /\ [][NextFault]_vars

(***************************************************************************)
(* Recognition with a storage failure.                                     *)
(***************************************************************************)
\* The models of the listing that get_file_content would open: indexed, and
\* the indexed path on disk.
Readable(st, listing) ==
    {i \in 1..Len(listing) : get_file_content(st, Md5Rank(listing[i])) # <<>>}

\* VoiceRecognitionService.recognize when open() or read() of a model file
\* raises IOError inside get_file_content: get_file_content re-raises,
\* _score_models lets it through, _evaluate_scores catches it and returns
\* None, and _recognize_signal answers for None.
RecognizeReadFails(x, threshold, listing) ==
    /\ Readable(Store, listing) # {}
    /\ recognition_cache' = recognition_cache \cup {DefaultConfig}
    /\ ret' = [Ret("recognize", NoSpeaker) EXCEPT
                  !.signal = x, !.threshold = threshold,
                  !.outcome = NoComputation,
                  !.result = recognize_signal(NoComputation)]
    /\ UNCHANGED <<disk, root, enrollment_cache, writer, history, sessions, live, extraction, gmm, manager, bst_file>>

NextReadFault ==
    \/ \E s \in Speakers, a \in Audio : EnrollSpeaker(s, a)
    \/ \E s \in Speakers : DeleteSpeaker(s)
    \/ Recognize
    \/ \E x \in Audio, threshold \in Thresholds,
          listing \in Orderings(ModelFiles(disk)) :
            RecognizeReadFails(x, threshold, listing)

SpecReadFault == Init /\ [][NextReadFault]_vars

(***************************************************************************)
(* Enrollment step by step, with recognize calls running in between: the   *)
(* two add_file calls of enroll_speaker, each an open (which creates or    *)
(* truncates the file), a write, and the insert into the index.            *)
(***************************************************************************)
BeginEnroll(s, a) ==
    /\ writer.pc = "idle"
    /\ writer' = [pc |-> "open_model", speaker |-> s, audio |-> a]
    /\ UNCHANGED <<disk, root, enrollment_cache, recognition_cache, ret, history, sessions, live, extraction, gmm, manager, bst_file>>

\* with open(full_path, 'wb') as f
OpenModel ==
    /\ writer.pc = "open_model"
    /\ disk' = WriteFile(disk, ModelPath(writer.speaker), <<>>)
    /\ writer' = [writer EXCEPT !.pc = "write_model"]
    /\ UNCHANGED <<root, enrollment_cache, recognition_cache, ret, history, sessions, live, extraction, gmm, manager, bst_file>>

\* f.write(file_content), and the close
WriteModel ==
    /\ writer.pc = "write_model"
    /\ disk' = WriteFile(disk, ModelPath(writer.speaker), serialize_model(Train(writer.audio)))
    /\ writer' = [writer EXCEPT !.pc = "insert_model"]
    /\ UNCHANGED <<root, enrollment_cache, recognition_cache, ret, history, sessions, live, extraction, gmm, manager, bst_file>>

InsertModel ==
    /\ writer.pc = "insert_model"
    /\ root' = insert(root, Md5Rank(ModelPath(writer.speaker)), ModelPath(writer.speaker))
    /\ writer' = [writer EXCEPT !.pc = "open_metadata"]
    /\ UNCHANGED <<disk, enrollment_cache, recognition_cache, ret, history, sessions, live, extraction, gmm, manager, bst_file>>

OpenMetadata ==
    /\ writer.pc = "open_metadata"
    /\ disk' = WriteFile(disk, MetadataPath(writer.speaker), <<>>)
    /\ writer' = [writer EXCEPT !.pc = "write_metadata"]
    /\ UNCHANGED <<root, enrollment_cache, recognition_cache, ret, history, sessions, live, extraction, gmm, manager, bst_file>>

WriteMetadata ==
    /\ writer.pc = "write_metadata"
    /\ disk' = WriteFile(disk, MetadataPath(writer.speaker), MetadataContent(writer.speaker))
    /\ writer' = [writer EXCEPT !.pc = "insert_metadata"]
    /\ UNCHANGED <<root, enrollment_cache, recognition_cache, ret, history, sessions, live, extraction, gmm, manager, bst_file>>

InsertMetadata ==
    /\ writer.pc = "insert_metadata"
    /\ root' = insert(root, Md5Rank(MetadataPath(writer.speaker)), MetadataPath(writer.speaker))
    /\ writer' = Idle
    /\ ret' = [Ret("enroll_speaker", writer.speaker) EXCEPT
                  !.ok = TRUE, !.signal = writer.audio,
                  !.again = (history[writer.speaker].enrolled # 0)]
    /\ history' = [Older EXCEPT ![writer.speaker] =
                      [NoHistory EXCEPT !.enrolled = writer.audio,
                                        !.reenrolled = (history[writer.speaker].enrolled # 0)]]
    /\ UNCHANGED <<disk, enrollment_cache, recognition_cache, sessions, live, extraction, gmm, manager, bst_file>>

NextConc ==
    \/ \E s \in Speakers, a \in Audio : BeginEnroll(s, a)
    \/ OpenModel
    \/ WriteModel
    \/ InsertModel
    \/ OpenMetadata
    \/ WriteMetadata
    \/ InsertMetadata
    \/ Recognize

SpecConc == Init /\ [][NextConc]_vars

(***************************************************************************)
(* Streaming sessions.                                                     *)
(***************************************************************************)
\* _BufferingRecognitionSession.consume(frame) on session k, with the
\* listing os.listdir returns if recognition runs.
consume(k, frame, listing) ==
    /\ IF Len(frame) = 0
       THEN /\ ret' = [Ret("consume", NoSpeaker) EXCEPT !.session = k, !.chunk = frame]
            /\ UNCHANGED <<sessions, recognition_cache>>
       ELSE LET frames == Append(sessions[k].frames, frame)
            IN  /\ sessions' = [SetFrames(sessions, k, frames) EXCEPT
                                   ![k].heard = sessions[k].heard \o frame]
                /\ IF StillCollecting(total_samples(frames), min_samples(sessions[k].config))
                   THEN /\ ret' = [Ret("consume", NoSpeaker) EXCEPT
                                      !.session = k, !.chunk = frame]
                        /\ UNCHANGED recognition_cache
                   ELSE LET signal == concatenate(frames)
                            outcome == recognize_signal_of(Store, listing, signal,
                                                           sessions[k].config,
                                                           sessions[k].threshold)
                        IN  /\ recognition_cache' = recognition_cache \cup {sessions[k].config.name}
                            /\ ret' = [Ret("consume", NoSpeaker) EXCEPT
                                          !.session = k, !.chunk = frame,
                                          !.passed = signal, !.returned = TRUE,
                                          !.signal = Recording(signal),
                                          !.threshold = sessions[k].threshold,
                                          !.outcome = outcome,
                                          !.result = recognize_signal(outcome)]
    /\ LET frames == Append(sessions[k].frames, frame)
           st == IF \/ Len(frame) = 0
                    \/ StillCollecting(total_samples(frames), min_samples(sessions[k].config))
                 THEN Store
                 ELSE store_after_scoring(Store, listing, 1)
       IN  /\ disk' = st.disk
           /\ root' = st.root
    /\ UNCHANGED <<enrollment_cache, writer, history, extraction, gmm, manager, bst_file>>

\* A caller's session.consume(frame).
Consume(k, frame, listing) ==
    /\ total_samples(sessions[k].frames) + Len(frame) <= MaxSamples
    /\ consume(k, frame, listing)
    /\ UNCHANGED live

\* _BufferingRecognitionSession.close() on session k.
Close(k) ==
    /\ sessions' = [SetFrames(sessions, k, close(sessions[k].frames)) EXCEPT
                       ![k].heard = <<>>]
    /\ ret' = [Ret("close", NoSpeaker) EXCEPT !.session = k,
                                              !.discarded = sessions[k].heard]
    /\ UNCHANGED <<disk, root, enrollment_cache, recognition_cache, writer, history,
                   live, extraction, gmm, manager, bst_file>>

\* Two sessions of one service, used while the service enrolls, recognizes,
\* lists and deletes.
SessionConsume ==
    \E k \in {"s1", "s2"}, frame \in Chunks, listing \in Orderings(ModelFiles(disk)) :
        Consume(k, frame, listing)

\* VoiceRecognitionService.recognize on recording 1, no threshold.
RecognizeOne ==
    \E listing \in Orderings(ModelFiles(disk)) : RecognizeOn(<<1>>, <<>>, listing)

NextSession ==
    \/ SessionConsume
    \/ \E k \in {"s1", "s2"} : Close(k)
    \/ \E a \in Audio : EnrollSpeaker("bob", a)
    \/ \E source \in AudioSources : ServiceEnroll("bob", source)
    \/ RecognizeOne
    \/ ListSpeakers
    \/ DeleteSpeaker("bob")

SpecSession == Init /\ [][NextSession]_vars

(***************************************************************************)
(* The live runner: the capture callback and the consumer loop.            *)
(***************************************************************************)
\* _callback: audio_queue.put(indata.copy().reshape(-1)), on the capture
\* thread, while the input stream is open.
LivePut(chunk) ==
    /\ live.pc # "stopped"
    /\ ~queue_full(live.audio_queue)
    /\ Len(live.enqueued) < MaxChunks
    /\ live' = [live EXCEPT !.audio_queue = queue_put(@, chunk),
                            !.enqueued = Append(@, chunk)]
    /\ UNCHANGED <<disk, root, enrollment_cache, recognition_cache, writer, ret,
                   history, sessions, extraction, gmm, manager, bst_file>>

\* chunk = audio_queue.get(): blocks while the queue is empty.
LiveGet ==
    /\ live.pc = "get"
    /\ live.audio_queue # <<>>
    /\ LET got == queue_get(live.audio_queue)
       IN  live' = [live EXCEPT !.pc = "call", !.chunk = got.chunk,
                                !.audio_queue = got.rest]
    /\ UNCHANGED <<disk, root, enrollment_cache, recognition_cache, writer, ret,
                   history, sessions, extraction, gmm, manager, bst_file>>

\* result = session.consume(chunk): the call is made ...
LiveConsumeCall ==
    /\ live.pc = "call"
    /\ live' = [live EXCEPT !.pc = "consuming", !.consuming = @ + 1,
                            !.delivered = Append(@, live.chunk)]
    /\ UNCHANGED <<disk, root, enrollment_cache, recognition_cache, writer, ret,
                   history, sessions, extraction, gmm, manager, bst_file>>

\* The runner when session.consume returns: the loop goes back to
\* audio_queue.get().
LiveLoopReturns ==
    /\ live.pc = "consuming"
    /\ live' = [live EXCEPT !.pc = "get", !.consuming = @ - 1, !.chunk = <<>>]

\* ... and returns, and the loop goes back to audio_queue.get().
LiveConsumeReturn ==
    /\ LiveLoopReturns
    /\ \E listing \in Orderings(ModelFiles(disk)) : consume("live", live.chunk, listing)

\* KeyboardInterrupt, wherever the loop is: the stream is closed, then
\* finally: session.close() and bst.serialize_bst().
LiveStop ==
    /\ live.pc # "stopped"
    /\ live' = [live EXCEPT !.pc = "stopped", !.consuming = 0,
                            !.saved = IF root = None THEN <<>> ELSE <<root>>]
    /\ sessions' = [SetFrames(sessions, "live", close(sessions["live"].frames)) EXCEPT
                       !["live"].heard = <<>>]
    /\ ret' = [Ret("close", NoSpeaker) EXCEPT !.session = "live",
                                              !.discarded = sessions["live"].heard]
    /\ UNCHANGED <<disk, root, enrollment_cache, recognition_cache, writer, history,
                   extraction, gmm, manager, bst_file>>

NextLive ==
    \/ \E chunk \in LiveChunks : LivePut(chunk)
    \/ LiveGet
    \/ LiveConsumeCall
    \/ LiveConsumeReturn
    \/ LiveStop

SpecLive == Init /\ [][NextLive]_vars

\* The consumer loop is the main thread of the process: while it is not
\* interrupted it is scheduled, so each of its steps that stays possible is
\* taken.  session.consume returns for every chunk, so its return is
\* possible whenever the call is in progress, and it is the one step that
\* takes the runner from the call back to audio_queue.get().  Nothing is
\* assumed of the capture thread or of the interrupt.
SpecLiveFair ==
    /\ Init /\ [][NextLive]_vars
    /\ WF_vars(LiveGet)
    /\ WF_vars(LiveConsumeCall)
    /\ WF_live(LiveLoopReturns)

(***************************************************************************)
(* Feature extraction calls.                                               *)
(***************************************************************************)
\* A call of frame_signal about to be made, on any signal and configuration.
InitFraming ==
    /\ InitService
    /\ extraction \in {[pc |-> "input", signal |-> signal, config |-> config,
                        frames |-> <<>>, features |-> <<>>] :
                           signal \in Signals, config \in FramingConfigs}

\* Framing.frame_signal(signal)
FrameSignal ==
    /\ extraction.pc = "input"
    /\ extraction' = [extraction EXCEPT
                         !.pc = "framed",
                         !.frames = frame_signal(extraction.signal, extraction.config)]
    /\ UNCHANGED <<disk, root, enrollment_cache, recognition_cache, writer, ret,
                   history, sessions, live, gmm, manager, bst_file>>

NextFraming == FrameSignal

SpecFraming == InitFraming /\ [][NextFraming]_vars

\* A call of extract_features about to be made, on any non-empty signal and
\* configuration.
InitExtract ==
    /\ InitService
    /\ extraction \in {[pc |-> "input", signal |-> signal, config |-> config,
                        frames |-> <<>>, features |-> <<>>] :
                           signal \in Signals, config \in ExtractorConfigs}

\* AudioFeatureExtractor.extract_features(signal)
ExtractFeatures ==
    /\ extraction.pc = "input"
    /\ LET outcome == extract_features(extraction.signal, extraction.config)
       IN  extraction' = [extraction EXCEPT
                             !.pc = IF outcome.raised THEN "raised" ELSE "extracted",
                             !.features = outcome.value]
    /\ UNCHANGED <<disk, root, enrollment_cache, recognition_cache, writer, ret,
                   history, sessions, live, gmm, manager, bst_file>>

NextExtract == ExtractFeatures

SpecExtract == InitExtract /\ [][NextExtract]_vars

(***************************************************************************)
(* The service on sources that deliver samples.                            *)
(***************************************************************************)
\* VoiceRecognitionService.enroll(req) on a source of samples.
EnrollFrom(s, source) ==
    /\ LET signal == collect_signal(source)
       IN  IF signal.raised
           THEN /\ ret' = [Ret("enroll", s) EXCEPT !.raised = "ValueError"]
                /\ UNCHANGED enrollment_cache
           ELSE /\ enrollment_cache' = enrollment_cache \cup {ShortConfig.name}
                /\ ret' = [Ret("enroll", s) EXCEPT !.raised = "AttributeError",
                                                   !.passed = signal.value,
                                                   !.signal = Recording(signal.value)]
    /\ UNCHANGED <<disk, root, recognition_cache, writer, history, sessions, live, extraction, gmm, manager, bst_file>>

\* VoiceRecognitionService.recognize(req) on a source of samples.
RecognizeFrom(source, threshold, listing) ==
    /\ LET signal == collect_signal(source)
       IN  IF signal.raised
           THEN /\ ret' = [Ret("recognize", NoSpeaker) EXCEPT !.raised = "ValueError",
                                                              !.threshold = threshold]
                /\ UNCHANGED recognition_cache
           ELSE LET outcome == recognize_signal_of(Store, listing, signal.value,
                                                   ShortConfig, threshold)
                IN  /\ recognition_cache' = recognition_cache \cup {ShortConfig.name}
                    /\ ret' = [Ret("recognize", NoSpeaker) EXCEPT
                                  !.passed = signal.value,
                                  !.signal = Recording(signal.value),
                                  !.threshold = threshold,
                                  !.outcome = outcome,
                                  !.returned = TRUE,
                                  !.result = recognize_signal(outcome)]
    /\ UNCHANGED <<disk, root, enrollment_cache, writer, history, sessions, live, extraction, gmm, manager, bst_file>>

RecognizeSamples ==
    \E source \in SampleSources, threshold \in Thresholds,
       listing \in Orderings(ModelFiles(disk)) :
         RecognizeFrom(source, threshold, listing)

NextCollect ==
    \/ \E s \in Speakers, a \in Audio : EnrollSpeaker(s, a)
    \/ \E s \in Speakers, source \in SampleSources : EnrollFrom(s, source)
    \/ RecognizeSamples

SpecCollect == Init /\ [][NextCollect]_vars

(***************************************************************************)
(* Calls on GMMGaussianModel objects.                                      *)
(***************************************************************************)
GmmTrain(k, a) ==
    /\ gmm' = GmmAfter("train", k, a, gmm_train(gmm.objects[k], a), None, gmm.serialized)
    /\ UNCHANGED <<disk, root, enrollment_cache, recognition_cache, writer, ret,
                   history, sessions, live, extraction, manager, bst_file>>

\* serialize_model(); a byte string returned is kept with the model it is of.
GmmSerialize(k) ==
    /\ LET outcome == gmm_serialize_model(gmm.objects[k])
       IN  gmm' = GmmAfter("serialize_model", k, 0, outcome, gmm.loaded_from[k],
                           IF outcome.raised = ""
                           THEN gmm.serialized \cup {[bytes |-> outcome.value.bytes,
                                                      of |-> gmm.objects[k].model]}
                           ELSE gmm.serialized)
    /\ UNCHANGED <<disk, root, enrollment_cache, recognition_cache, writer, ret,
                   history, sessions, live, extraction, manager, bst_file>>

\* deserialize_model on a byte string that serialize_model returned.
GmmDeserialize(k, s) ==
    /\ s \in gmm.serialized
    /\ gmm' = GmmAfter("deserialize_model", k, 0,
                       gmm_deserialize_model(gmm.objects[k], s.bytes), s.of,
                       gmm.serialized)
    /\ UNCHANGED <<disk, root, enrollment_cache, recognition_cache, writer, ret,
                   history, sessions, live, extraction, manager, bst_file>>

GmmLoad ==
    \E k \in GmmObjects, s \in gmm.serialized : GmmDeserialize(k, s)

GmmPredict(k, x) ==
    /\ gmm' = GmmAfter("predict", k, x, gmm_predict(gmm.objects[k], x),
                       gmm.loaded_from[k], gmm.serialized)
    /\ UNCHANGED <<disk, root, enrollment_cache, recognition_cache, writer, ret,
                   history, sessions, live, extraction, manager, bst_file>>

GmmScore(k, x) ==
    /\ LET outcome == gmm_score(gmm.objects[k], x)
       IN  gmm' = GmmAfter("score", k, x, outcome,
                           IF outcome.self = gmm.objects[k] THEN gmm.loaded_from[k] ELSE None,
                           gmm.serialized)
    /\ UNCHANGED <<disk, root, enrollment_cache, recognition_cache, writer, ret,
                   history, sessions, live, extraction, manager, bst_file>>

NextGmm ==
    \/ \E k \in GmmObjects, a \in Audio : GmmTrain(k, a)
    \/ \E k \in GmmObjects : GmmSerialize(k)
    \/ GmmLoad
    \/ \E k \in GmmObjects, x \in Audio : GmmPredict(k, x)
    \/ \E k \in GmmObjects, x \in Audio : GmmScore(k, x)

SpecGmm == Init /\ [][NextGmm]_vars

(***************************************************************************)
(* Calls on the file manager.                                              *)
(***************************************************************************)
ManagerStore == [disk |-> manager.disk, root |-> manager.root]

\* add_file(file_path, file_content) at time now; fresh: the path was
\* neither indexed nor on disk.
AddFile(file_path, file_content, now) ==
    /\ manager' = [ManagerAfter(add_file_at(ManagerStore, file_path, file_content, now),
                                "add_file", FileId(file_path))
                      EXCEPT !.file_path = file_path,
                             !.file_content = file_content,
                             !.time = now,
                             !.fresh = /\ search_recursive(manager.root, FileId(file_path)) = None
                                       /\ ~Exists(manager.disk, FullPath(file_path))]
    /\ UNCHANGED <<disk, root, enrollment_cache, recognition_cache, writer, ret,
                   history, sessions, live, extraction, gmm, bst_file>>

\* delete_file(file_id); follows_add: the call before was add_file of the
\* file with this id.
DeleteFile(file_id) ==
    /\ manager' = [ManagerAfter(delete_file(ManagerStore, file_id), "delete_file", file_id)
                      EXCEPT !.file_path = IF manager.op = "add_file" /\ manager.file_id = file_id
                                           THEN manager.file_path ELSE <<>>,
                             !.follows_add = /\ manager.op = "add_file"
                                             /\ manager.file_id = file_id]
    /\ UNCHANGED <<disk, root, enrollment_cache, recognition_cache, writer, ret,
                   history, sessions, live, extraction, gmm, bst_file>>

\* get_file_metadata(file_id)
GetFileMetadata(file_id) ==
    /\ manager' = [ManagerAfter(ManagerStore, "get_file_metadata", file_id)
                      EXCEPT !.returned = get_file_metadata(ManagerStore, file_id)]
    /\ UNCHANGED <<disk, root, enrollment_cache, recognition_cache, writer, ret,
                   history, sessions, live, extraction, gmm, bst_file>>

NextFiles ==
    \/ \E file_path \in FilePaths, file_content \in FileContents, now \in Times :
          AddFile(file_path, file_content, now)
    \/ \E file_id \in FileIds : DeleteFile(file_id)
    \/ \E file_id \in FileIds : GetFileMetadata(file_id)

SpecFiles == Init /\ [][NextFiles]_vars

(***************************************************************************)
(* Calls on the index.                                                     *)
(***************************************************************************)
\* BinarySearchTree.insert(...); fresh: the file_id was not in the tree.
Insert(file_id, now) ==
    /\ LET kw == InsertArguments(file_id, now)
       IN  manager' = [ManagerAfter([disk |-> manager.disk,
                                     root |-> insert_node(manager.root, kw)],
                                    "insert", file_id)
                          EXCEPT !.time = now,
                                 !.fresh = (search(manager.root, file_id) = None)]
    /\ UNCHANGED <<disk, root, enrollment_cache, recognition_cache, writer, ret,
                   history, sessions, live, extraction, gmm, bst_file>>

\* BinarySearchTree.delete_node(file_id)
DeleteNode(file_id) ==
    /\ manager' = ManagerAfter([disk |-> manager.disk,
                                root |-> delete_node(manager.root, file_id)],
                               "delete_node", file_id)
    /\ UNCHANGED <<disk, root, enrollment_cache, recognition_cache, writer, ret,
                   history, sessions, live, extraction, gmm, bst_file>>

\* BinarySearchTree.search(file_id) and search_recursive(file_id)
Search(file_id) ==
    /\ manager' = [ManagerAfter(ManagerStore, "search", file_id)
                      EXCEPT !.returned = <<RecordOf(search(manager.root, file_id)),
                                            RecordOf(search_recursive(manager.root, file_id))>>]
    /\ UNCHANGED <<disk, root, enrollment_cache, recognition_cache, writer, ret,
                   history, sessions, live, extraction, gmm, bst_file>>

NextTree ==
    \/ \E file_id \in TreeIds, now \in Times : Insert(file_id, now)
    \/ \E file_id \in TreeIds : DeleteNode(file_id)
    \/ \E file_id \in TreeIds : Search(file_id)

SpecTree == Init /\ [][NextTree]_vars

(***************************************************************************)
(* Calls on the file manager, with writes that fail and with updates.      *)
(***************************************************************************)
\* add_file(file_path, file_content) whose write raises IOError
AddFileRaises(file_path, file_content) ==
    /\ manager' = [ManagerAfter(add_file_raises(ManagerStore, file_path),
                                "add_file_raises", FileId(file_path))
                      EXCEPT !.file_path = file_path,
                             !.file_content = file_content]
    /\ UNCHANGED <<disk, root, enrollment_cache, recognition_cache, writer, ret,
                   history, sessions, live, extraction, gmm, bst_file>>

\* update_file(file_id, new_content) at time now
UpdateFile(file_id, new_content, now) ==
    /\ LET node == search_recursive(manager.root, file_id)
       IN  node # None => node[1].access_frequency < MaxUpdates
    /\ manager' = [ManagerAfter(update_file(ManagerStore, file_id, new_content, now),
                                "update_file", file_id)
                      EXCEPT !.file_content = new_content,
                             !.time = now]
    /\ UNCHANGED <<disk, root, enrollment_cache, recognition_cache, writer, ret,
                   history, sessions, live, extraction, gmm, bst_file>>

NextFilesFault ==
    \/ \E file_path \in FilePaths :
          AddFile(file_path, [type |-> "str", items |-> <<"a", "b">>], 1)
    \/ \E file_path \in FilePaths :
          AddFileRaises(file_path, [type |-> "str", items |-> <<"a", "b">>])
    \/ \E file_id \in FileIds :
          UpdateFile(file_id, [type |-> "str", items |-> <<"e-acute">>], 2)
    \/ \E file_id \in FileIds : DeleteFile(file_id)

SpecFilesFault == Init /\ [][NextFilesFault]_vars

(***************************************************************************)
(* Deleting speakers, enrolled, half enrolled or not enrolled.             *)
(***************************************************************************)
NextDelete ==
    \/ \E s \in Speakers, a \in Audio : EnrollSpeaker(s, a)
    \/ \E s \in Speakers, a \in Audio : EnrollSpeakerFails(s, a)
    \/ \E s \in Speakers : DeleteSpeaker(s)

SpecDelete == Init /\ [][NextDelete]_vars

(***************************************************************************)
(* Calls of add_file with any path and any content.                        *)
(***************************************************************************)
AddFileCall(file_path, file_content, now) ==
    /\ LET call == add_file_call(ManagerStore, file_path, file_content, now)
       IN  manager' = [ManagerAfter(call.store, "add_file",
                                    IF call.raised = "" THEN FileId(file_path) ELSE 0)
                          EXCEPT !.file_path = file_path,
                                 !.file_content = file_content,
                                 !.time = now,
                                 !.raised = call.raised]
    /\ UNCHANGED <<disk, root, enrollment_cache, recognition_cache, writer, ret,
                   history, sessions, live, extraction, gmm, bst_file>>

NextAddFile ==
    \/ \E file_path \in FilePaths \cup RefusedPaths,
          file_content \in FileContents \cup OtherContents :
            AddFileCall(file_path, file_content, 1)
    \/ \E file_id \in FileIds : DeleteFile(file_id)

SpecAddFile == Init /\ [][NextAddFile]_vars

(***************************************************************************)
(* cli.main, one process per command: BinarySearchTree() loads the index,  *)
(* the command runs on the service, bst.serialize_bst() is the last        *)
(* statement and is reached only if the command returns.  root is the      *)
(* index in memory when the process ends.                                  *)
(***************************************************************************)
\* The store of a process that has just loaded the index.
LoadedStore == [disk |-> disk, root |-> deserialize_bst(bst_file)]

\* main(['enroll', speaker_name, audio_file]): service.enroll raises before
\* anything is stored, the exception leaves main.
CliEnroll(s, source) ==
    /\ ret' = [Ret("cli_enroll", s) EXCEPT
                  !.raised = IF source = <<>> THEN "ValueError" ELSE "AttributeError"]
    /\ root' = LoadedStore.root
    /\ UNCHANGED <<disk, bst_file, enrollment_cache, recognition_cache, writer, history,
                   sessions, live, extraction, gmm, manager>>

\* main(['recognize', audio_file])
CliRecognize(source, listing) ==
    /\ IF source = <<>>
       THEN /\ ret' = [Ret("cli_recognize", NoSpeaker) EXCEPT !.raised = "ValueError"]
            /\ root' = LoadedStore.root
            /\ UNCHANGED <<disk, bst_file>>
       ELSE LET outcome == evaluate_scores(LoadedStore, listing, source[1], <<>>)
                st == store_after_scoring(LoadedStore, listing, 1)
            IN  /\ ret' = [Ret("cli_recognize", NoSpeaker) EXCEPT
                              !.signal = source[1], !.outcome = outcome,
                              !.result = recognize_signal(outcome)]
                /\ disk' = st.disk
                /\ root' = st.root
                /\ bst_file' = serialize_bst(st.root, bst_file)
    /\ UNCHANGED <<enrollment_cache, recognition_cache, writer, history,
                   sessions, live, extraction, gmm, manager>>

CliRecognizeFile ==
    \E source \in AudioSources, listing \in Orderings(ModelFiles(disk)) :
        CliRecognize(source, listing)

\* main(['list_speakers'])
CliListSpeakers ==
    /\ ret' = [Ret("cli_list_speakers", NoSpeaker) EXCEPT
                  !.listing = list_speakers(LoadedStore)]
    /\ root' = LoadedStore.root
    /\ bst_file' = serialize_bst(LoadedStore.root, bst_file)
    /\ UNCHANGED <<disk, enrollment_cache, recognition_cache, writer, history,
                   sessions, live, extraction, gmm, manager>>

\* main(['delete_speaker', speaker_name])
CliDeleteSpeaker(s) ==
    /\ LET st == delete_speaker(LoadedStore, s)
       IN  /\ disk' = st.disk
           /\ root' = st.root
           /\ bst_file' = serialize_bst(st.root, bst_file)
    /\ ret' = Ret("cli_delete_speaker", s)
    /\ UNCHANGED <<enrollment_cache, recognition_cache, writer, history,
                   sessions, live, extraction, gmm, manager>>

\* A process that enrolls with SpeakerEnrollment.enroll_speaker on the
\* loaded index and persists it with bst.serialize_bst(): how the speakers
\* the commands work on come to be stored.
EnrollAndPersist(s, a) ==
    /\ LET st == enroll_speaker(LoadedStore, s, a)
       IN  /\ disk' = st.disk
           /\ root' = st.root
           /\ bst_file' = serialize_bst(st.root, bst_file)
    /\ ret' = [Ret("enroll_speaker", s) EXCEPT !.ok = TRUE, !.signal = a]
    /\ UNCHANGED <<enrollment_cache, recognition_cache, writer, history,
                   sessions, live, extraction, gmm, manager>>

NextCli ==
    \/ \E s \in Speakers, a \in Audio : EnrollAndPersist(s, a)
    \/ \E s \in Speakers, source \in AudioSources : CliEnroll(s, source)
    \/ CliRecognizeFile
    \/ CliListSpeakers
    \/ \E s \in Speakers : CliDeleteSpeaker(s)

SpecCli == Init /\ [][NextCli]_vars

(***************************************************************************)
(* Properties.                                                             *)
(***************************************************************************)
Recognized == ret.op = "recognize" /\ ret.raised = ""

EmptyResult == RecognitionResult(NoSpeaker, NegInf, <<>>, TRUE)

\* C1: with no speaker enrolled, recognize on any non-empty signal and any
\* threshold (None included) returns, without raising, the outcome
\* {speaker: None, score: -inf, scores: {}, rejected: True}.
Thm_C1_NoEnrolledSpeakers ==
    (ret.op = "recognize" /\ ret.signal # 0 /\ Enrolled = {})
        => (ret.raised = "" /\ ret.result = EmptyResult)

\* Reached: recognize ran with a threshold while nobody was enrolled, after
\* enrollments and deletions that left entries in the index.
Wit_C1_NoEnrolledSpeakers ==
    /\ ret.op = "recognize" /\ ret.signal # 0 /\ ret.threshold # <<>>
    /\ Enrolled = {} /\ root # None
    /\ ret.result = EmptyResult

\* C2: at the service boundary a rejected result exposes no speaker,
\* whichever candidate the engine selected; a threshold above every score
\* gives rejected = True and speaker = None.
Thm_C2_RejectedExposesNoSpeaker ==
    Recognized =>
        /\ ret.result.rejected => ret.result.speaker_id = NoSpeaker
        /\ (/\ ret.threshold # <<>>
            /\ \A name \in DOMAIN ret.result.scores :
                   ret.result.scores[name] < ret.threshold[1])
               => (ret.result.rejected /\ ret.result.speaker_id = NoSpeaker)

\* Reached: the engine selected a candidate, the threshold rejected it and
\* the service result names nobody.
Wit_C2_RejectedExposesNoSpeaker ==
    /\ Recognized
    /\ ret.outcome.speaker # NoSpeaker
    /\ ret.result.rejected
    /\ ret.result.speaker_id = NoSpeaker

\* C3: the engine's rejected flag is (threshold is not None and best_score <
\* threshold) when a speaker scored, with the comparison strict, and True
\* when none scored; an outcome that names no speaker is rejected.
Thm_C3_EngineRejection ==
    (Recognized /\ ~ret.outcome.is_none) =>
        /\ ret.outcome.scores # <<>> =>
               (ret.outcome.rejected <=>
                    (ret.threshold # <<>> /\ ret.outcome.best_score < ret.threshold[1]))
        /\ ret.outcome.scores = <<>> => ret.outcome.rejected
        /\ ret.outcome.speaker = NoSpeaker => ret.outcome.rejected

\* Reached: the best score equals the threshold and the match is accepted.
Wit_C3_EngineRejection ==
    /\ Recognized /\ ~ret.outcome.is_none
    /\ ret.threshold # <<>>
    /\ ret.outcome.best_score = ret.threshold[1]
    /\ ~ret.outcome.rejected
    /\ ret.outcome.speaker # NoSpeaker

\* C4: when at least one speaker scored, no entry of the score map exceeds
\* the returned best score, and the best score is the selected speaker's
\* own entry.
Thm_C4_SelectsMaximum ==
    (Recognized /\ ret.result.scores # <<>>) =>
        /\ \A name \in DOMAIN ret.result.scores : ret.result.scores[name] <= ret.result.score
        /\ ret.outcome.speaker \in DOMAIN ret.result.scores
        /\ ret.result.scores[ret.outcome.speaker] = ret.result.score

\* Reached: two speakers scored differently and the one listed second won.
Wit_C4_SelectsMaximum ==
    /\ Recognized
    /\ Len(ret.outcome.scores) = 2
    /\ ret.outcome.scores[1][2] < ret.outcome.scores[2][2]
    /\ ret.outcome.speaker = ret.outcome.scores[2][1]

\* C5: with two or more speakers tied at the maximum score the winner does
\* not depend on the order in which the models directory is listed: for
\* every signal, any two listings of the same store select the same speaker.
Claim_C5_TieBreakIgnoresListingOrder ==
    \A x \in Audio :
        \A o1, o2 \in Orderings(ModelFiles(disk)) :
            evaluate_scores(Store, o1, x, <<>>).speaker
                = evaluate_scores(Store, o2, x, <<>>).speaker

\* C6: after delete_speaker(s), until s is enrolled again, no recognize has
\* s in its score map and no list_speakers returns s.
Claim_C6_DeletedSpeakerGone ==
    \A s \in Speakers :
        history[s].deleted =>
            /\ Recognized => s \notin DOMAIN ret.result.scores
            /\ ret.op = "list_speakers" =>
                   \A i \in 1..Len(ret.listing) : ret.listing[i].speaker_id # s

\* The number of index entries with a given file id.
RECURSIVE CountId(_, _)
CountId(node, file_id) ==
    IF node = None THEN 0
    ELSE (IF node[1].file_id = file_id THEN 1 ELSE 0)
         + CountId(node[2], file_id) + CountId(node[3], file_id)

\* C7: enrolling a speaker id again leaves exactly one stored model and one
\* metadata record for it, one index entry each, the stored model being the
\* later enrollment's; and recognize then scores the id with that model.
Claim_C7_ReenrollmentReplaces ==
    /\ (ret.op = "enroll_speaker" /\ ret.again) =>
           /\ CountId(root, Md5Rank(ModelPath(ret.speaker))) = 1
           /\ CountId(root, Md5Rank(MetadataPath(ret.speaker))) = 1
           /\ Exists(disk, ModelPath(ret.speaker))
           /\ disk[ModelPath(ret.speaker)] = serialize_model(Train(ret.signal))
           /\ Exists(disk, MetadataPath(ret.speaker))
    /\ Recognized =>
           \A s \in Speakers :
               history[s].reenrolled =>
                   /\ s \in DOMAIN ret.result.scores
                   /\ ret.result.scores[s]
                          = ModelScore(Train(history[s].enrolled), ret.signal)

\* C8: the service's enroll with non-empty audio returns a result, and then
\* the store holds a model and a metadata record indexed under the speaker.
Claim_C8_ServiceEnrollStores ==
    (ret.op = "enroll" /\ ret.signal # 0) =>
        /\ ret.raised = ""
        /\ search_recursive(root, Md5Rank(ModelPath(ret.speaker))) # None
        /\ search_recursive(root, Md5Rank(MetadataPath(ret.speaker))) # None
        /\ Exists(disk, ModelPath(ret.speaker))
        /\ Exists(disk, MetadataPath(ret.speaker))

\* C9: when an enrollment fails after its model was written and before its
\* metadata was, no later recognize scores the half-written model: a speaker
\* with no completed enrollment is not scored, and one with a completed
\* enrollment is scored with that enrollment's model.
Claim_C9_HalfWrittenNotScored ==
    Recognized =>
        \A s \in Speakers :
            history[s].half_written # 0 =>
                IF history[s].enrolled = 0
                THEN s \notin DOMAIN ret.result.scores
                ELSE s \in DOMAIN ret.result.scores =>
                         ret.result.scores[s]
                             = ModelScore(Train(history[s].enrolled), ret.signal)

\* C10: a recognize that runs while a speaker is being (re-)enrolled only
\* ever deserializes complete models: every content it hands to
\* deserialize_model is the serialization of a trained model.
Claim_C10_NoPartialModelRead ==
    ret.op = "recognize" =>
        \A i \in 1..Len(ret.loaded) :
            ret.loaded[i][2] \in {serialize_model(Train(a)) : a \in Audio}

\* C11: a storage I/O failure or a deserialization failure while recognize
\* scores the models reaches the caller as an error: a recognize whose
\* scoring raised does not return a result.
Claim_C11_ScoringFailureRaises ==
    (ret.op = "recognize" /\ ret.signal # 0 /\ ret.outcome.is_none)
        => ret.raised # ""

Claim_C13_ReadyAlwaysReturns ==
    (ret.op = "consume"
        /\ Len(sessions[ret.session].heard) >= min_samples(sessions[ret.session].config))
        => ret.returned

\* C14: the signal a session gives the engine is all the samples consumed
\* since it started or was last closed, in arrival order, each once; and
\* every session's buffer holds as many samples as it was given since then,
\* so it does not shrink between closes.
Thm_C14_SignalIsEverythingHeard ==
    /\ (ret.op = "consume" /\ ret.returned) =>
           ret.passed = sessions[ret.session].heard
    /\ \A k \in Sessions :
           total_samples(sessions[k].frames) = Len(sessions[k].heard)

\* Reached: recognition ran over three chunks of different sizes.
Wit_C14_SignalIsEverythingHeard ==
    /\ ret.op = "consume" /\ ret.returned
    /\ Len(sessions[ret.session].frames) = 3
    /\ ret.passed = <<1, 1, 2, 1>>

Thm_C16_BufferIsTheSessionsOwn ==
    [][\A k \in Sessions :
          sessions'[k].frames # sessions[k].frames =>
              (ret'.op \in {"consume", "close"} /\ ret'.session = k)]_vars

\* Reached: delete_speaker ran while both sessions held samples, and the
\* two buffers differ.
Wit_C16_BufferIsTheSessionsOwn ==
    /\ ret.op = "delete_speaker"
    /\ sessions["s1"].frames # <<>>
    /\ sessions["s2"].frames # <<>>
    /\ sessions["s1"].frames # sessions["s2"].frames

\* The sequence p is the start of the sequence q.
IsPrefix(p, q) == Len(p) <= Len(q) /\ SubSeq(q, 1, Len(p)) = p

\* C17: in a live run the chunks given to session.consume are, in order and
\* each once, the chunks the callback enqueued: what was delivered, the
\* chunk in hand and the queue make up exactly what was enqueued; and no
\* two consume calls are in progress at once.
Thm_C17_LiveOrderAndSingleConsumer ==
    /\ IsPrefix(live.delivered, live.enqueued)
    /\ live.pc # "stopped" =>
           live.delivered \o (IF live.pc = "call" THEN <<live.chunk>> ELSE <<>>)
               \o live.audio_queue = live.enqueued
    /\ live.consuming <= 1

\* Reached: a consume in progress on the third chunk delivered, the first
\* two different, while the callback has queued more.
Wit_C17_LiveOrderAndSingleConsumer ==
    /\ live.pc = "consuming"
    /\ Len(live.delivered) = 3
    /\ live.delivered[1] # live.delivered[2]
    /\ live.audio_queue # <<>>

\* C18: the queue between the callback and the consumer holds at most a
\* fixed number of chunks, fewer than the callback produces when the
\* consumer is slower.
Claim_C18_QueueIsBounded ==
    Len(live.audio_queue) < MaxChunks

Claim_C20_AtLeastOneFrame ==
    extraction.pc = "framed" =>
        LET N == Len(extraction.signal)
            L == to_samples(extraction.config.frame_size, extraction.config.sample_rate)
            S == to_samples(extraction.config.frame_step, extraction.config.sample_rate)
        IN  /\ Len(extraction.frames) >= 1
            /\ N >= L => Len(extraction.frames) = ceil_div(N - L, S) + 1

\* C21: extracting the features of a non-empty signal returns a matrix with
\* num_ceps columns and as many rows as the framing formula gives, clamped
\* to at least one, row i being the coefficients of frame i.
Claim_C21_FeatureMatrixShape ==
    extraction.pc \in {"extracted", "raised"} =>
        LET config == extraction.config
            N == Len(extraction.signal)
            L == to_samples(config.frame_size, config.sample_rate)
            S == to_samples(config.frame_step, config.sample_rate)
            F == IF ceil_div(N - L, S) + 1 < 1 THEN 1 ELSE ceil_div(N - L, S) + 1
            padded == padded_signal(apply_filter(extraction.signal), F * S + L)
            windowed == [i \in 1..F |->
                            [n \in 1..L |-> padded[(i - 1) * S + n] * hamming_window(L)[n]]]
        IN  /\ extraction.pc = "extracted"
            /\ Len(extraction.features) = F
            /\ \A i \in 1..F : Len(extraction.features[i]) = config.num_ceps
            /\ extraction.features = mfcc(windowed, config)

\* The signal is empty, or framing it yields no frame.
NoFrames(signal, config) ==
    \/ signal = <<>>
    \/ Len(frame_signal(apply_filter(signal), config)) = 0

\* C22: an enroll or a recognize whose signal is empty, or is framed into
\* zero frames, raises an error and returns no result, and leaves the
\* files and the index as they were.
Claim_C22_NoFramesRaises ==
    [][(ret'.op \in {"enroll", "recognize"} /\ NoFrames(ret'.passed, ShortConfig))
          => /\ ret'.raised # ""
             /\ ~ret'.returned
             /\ disk' = disk
             /\ root' = root]_vars

\* C23: on an object whose model is None, serialize_model, predict and
\* scoring raise the error of a model that is not ready (the ValueError of
\* the None checks) and leave the model None; the model of an object
\* becomes other than None only by train or deserialize_model on it.
Claim_C23_UntrainedModelNotReady ==
    [][\A k \in GmmObjects :
          gmm.objects[k].model = None =>
              /\ (gmm'.object = k /\ gmm'.op \in {"serialize_model", "predict", "score"})
                     => /\ gmm'.raised = "ValueError"
                        /\ gmm'.objects[k].model = None
              /\ gmm'.objects[k].model # None
                     => /\ gmm'.object = k
                        /\ gmm'.op \in {"train", "deserialize_model"}]_vars

Claim_C25_AddFileRecord ==
    (manager.op = "add_file" /\ manager.fresh) =>
        LET node == search_recursive(manager.root, FileId(manager.file_path))
            metadata == get_file_metadata(ManagerStore, FileId(manager.file_path))
            Holds(r) ==
                /\ r.file_path = FullPath(manager.file_path)
                /\ r.file_size = Len(manager.file_content.items)
                /\ r.file_type = manager.file_path[Len(manager.file_path)]
                /\ r.access_frequency = 0
                /\ r.version = None
                /\ r.permissions = None
                /\ r.checksum = None
                /\ r.creation_date = PyInt(manager.time)
                /\ r.description = PyStr(<<"Added file at ", FullPath(manager.file_path)>>)
        IN  /\ node # None
            /\ Holds(node[1])
            /\ metadata # <<>>
            /\ Holds(metadata[1])

\* C26: after add_file(path, content) followed by delete_file of that
\* file's id, search_recursive finds no record for the id and the file is
\* not on disk, whatever else is indexed and wherever the node was.
Thm_C26_AddThenDeleteRemoves ==
    (manager.op = "delete_file" /\ manager.follows_add) =>
        /\ search_recursive(manager.root, manager.file_id) = None
        /\ ~Exists(manager.disk, FullPath(manager.file_path))

\* The file deleted right after its add was the root with two children: the
\* root node now carries the id of d.tar.gz, and has a left child.
Wit_C26_AddThenDeleteRemoves ==
    /\ manager.op = "delete_file"
    /\ manager.follows_add
    /\ manager.file_id = FileId(<<"a", "txt">>)
    /\ manager.root # None
    /\ manager.root[1].file_id = FileId(<<"d", "tar", "gz">>)
    /\ manager.root[1].file_path = FullPath(<<"a", "txt">>)
    /\ manager.root[2] # None

\* The fields insert sets on the node it updates.
UpdatedFields ==
    {"file_timestamp", "file_path", "file_size", "file_type", "version",
     "permissions", "checksum", "creation_date", "description"}

\* C27: an insert of a file_id that is in the tree updates its node and
\* adds none, so no two nodes share a file_id, and the node then holds in
\* its metadata fields what a first insert with these arguments gives.
Claim_C27_InsertUpdatesInPlace ==
    manager.op = "insert" =>
        LET ids == in_order(manager.root)
            kw == InsertArguments(manager.file_id, manager.time)
            node == search_recursive(manager.root, manager.file_id)
            first == insert_node(None, kw)
        IN  /\ \A i, j \in 1..Len(ids) : ids[i] = ids[j] => i = j
            /\ node # None
            /\ \A f \in UpdatedFields : node[1][f] = first[1][f]

\* C29: delete_node(id) removes the record with that id and leaves every
\* other record as it was, with its file_id, file_path, size, type and the
\* rest of its metadata; on an empty tree or an absent id the tree is
\* unchanged.
Claim_C29_DeleteRemovesExactlyOne ==
    [][manager'.op = "delete_node" =>
          /\ search_recursive(manager'.root, manager'.file_id) = None
          /\ \A j \in TreeIds \ {manager'.file_id} :
                RecordOf(search_recursive(manager'.root, j))
                    = RecordOf(search_recursive(manager.root, j))
          /\ search_recursive(manager.root, manager'.file_id) = None
                => manager'.root = manager.root]_vars

\* Every file_id in the left subtree of a node is smaller than the node's
\* and every file_id in its right subtree is larger.
RECURSIVE IsSearchTree(_, _, _)
IsSearchTree(node, low, high) ==
    \/ node = None
    \/ /\ low < node[1].file_id
       /\ node[1].file_id < high
       /\ IsSearchTree(node[2], low, node[1].file_id)
       /\ IsSearchTree(node[3], node[1].file_id, high)

\* The file ids that are in the tree.
TreeIdsOf(node) == {in_order(node)[i] : i \in 1..Len(in_order(node))}

\* C30: after any sequence of insert and delete_node calls the tree is a
\* binary search tree on file_id, and search and search_recursive find
\* every file_id that is in it and return None for every other.
Thm_C30_SearchTreeOrder ==
    /\ IsSearchTree(manager.root, 0, 5)
    /\ \A file_id \in TreeIds :
          /\ search(manager.root, file_id) = search_recursive(manager.root, file_id)
          /\ IF file_id \in TreeIdsOf(manager.root)
             THEN /\ search(manager.root, file_id) # None
                  /\ search(manager.root, file_id)[1].file_id = file_id
             ELSE search(manager.root, file_id) = None
    /\ manager.op = "search" =>
          /\ manager.returned[1] = RecordOf(search(manager.root, manager.file_id))
          /\ manager.returned[2] = manager.returned[1]

\* A node with two children was deleted whose successor was not its right
\* child: the root was 2 over 1 and 4, with 3 under 4; it now carries
\* file_id 3 over 1 and 4, and a search has found 3.
Wit_C30_SearchTreeOrder ==
    /\ manager.op = "search"
    /\ manager.file_id = 3
    /\ manager.returned[1] # <<>>
    /\ manager.root # None
    /\ manager.root[1].file_id = 3
    /\ manager.root[1].file_path = <<BaseDirectory, 2>>
    /\ manager.root[2] # None
    /\ manager.root[3] # None
    /\ manager.root[3][1].file_id = 4

\* list_speakers on the store st returns t with its own metadata path.
ListedAsItself(st, t) ==
    \E i \in 1..Len(list_speakers(st)) :
        list_speakers(st)[i] = [speaker_id |-> t, metadata_path |-> MetadataPath(t)]

\* recognize on the store st scores t with the model fitted on recording a,
\* whatever the query and the order of the listing.
ScoredFromModel(st, t, a) ==
    \A x \in Audio, listing \in Orderings(ModelFiles(st.disk)) :
        LET speaker_scores == score_models(st, listing, x).speaker_scores
        IN  \E i \in 1..Len(speaker_scores) :
                speaker_scores[i] = <<t, ModelScore(Train(a), x)>>

\* C28: delete_speaker(s) leaves every other enrolled speaker t listed by
\* list_speakers with its own metadata path and scored by recognize from
\* its own model.
Claim_C28_DeleteAffectsOnlyItsSpeaker ==
    [][ret'.op = "delete_speaker" =>
          \A t \in Speakers \ {ret'.speaker} :
              history[t].enrolled # 0 =>
                  /\ ListedAsItself([disk |-> disk', root |-> root'], t)
                  /\ ScoredFromModel([disk |-> disk', root |-> root'], t,
                                     history[t].enrolled)]_vars

\* The records of the index.
RECURSIVE RecordsOf(_)
RecordsOf(node) ==
    IF node = None THEN {}
    ELSE {node[1]} \cup RecordsOf(node[2]) \cup RecordsOf(node[3])

\* C31: after any sequence of add_file, update_file and delete_file calls,
\* failed ones included, every record of the index has its file on disk,
\* and after a failed add_file every file on disk has a record too.
Claim_C31_RecordsPointToFiles ==
    /\ \A record \in RecordsOf(manager.root) : Exists(manager.disk, record.file_path)
    /\ manager.op = "add_file_raises" =>
          \A path \in DOMAIN manager.disk :
              \E record \in RecordsOf(manager.root) : record.file_path = path

\* The speaker ids list_speakers returns in the store st.
ListedSpeakers(st) == {list_speakers(st)[i].speaker_id : i \in 1..Len(list_speakers(st))}

\* The keys of the score map recognize returns in the store st, for the
\* signal x and the listing os.listdir gives.
ScoredSpeakers(st, listing, x) ==
    DOMAIN recognize_signal(evaluate_scores(st, listing, x, <<>>)).scores

\* C32: after any sequence of enroll and delete_speaker operations,
\* list_speakers returns a speaker id if and only if the id is a key of the
\* score map of a recognize call made in the same state.
Claim_C32_ListingAgreesWithScores ==
    \A listing \in Orderings(ModelFiles(disk)), x \in Audio :
        ListedSpeakers(Store) = ScoredSpeakers(Store, listing, x)

\* C33: every RecognitionResult the service returns is well formed: a
\* speaker_id that is not null means rejected = false, speaker_id is a key
\* of scores and score = scores[speaker_id]; rejected = false means
\* speaker_id is not null; an empty score map means score = -infinity and
\* rejected = true.
Thm_C33_ResultWellFormed ==
    Recognized =>
        LET result == ret.result
        IN  /\ result.speaker_id # NoSpeaker =>
                  /\ ~result.rejected
                  /\ result.speaker_id \in DOMAIN result.scores
                  /\ result.score = result.scores[result.speaker_id]
            /\ ~result.rejected => result.speaker_id # NoSpeaker
            /\ DOMAIN result.scores = {} => (result.score = NegInf /\ result.rejected)

\* recognize has returned an accepted speaker out of two scored ones, and
\* the other speaker scored lower.
Wit_C33_ResultWellFormed ==
    /\ Recognized
    /\ ret.result.speaker_id # NoSpeaker
    /\ ~ret.result.rejected
    /\ DOMAIN ret.result.scores = Speakers
    /\ \E t \in Speakers : ret.result.scores[t] < ret.result.score

\* C34: recognize, list_speakers and a session's consume are read-only for
\* storage: no stored model, metadata file or index entry is added, changed
\* or removed by them.
Thm_C34_ReadsLeaveStorage ==
    [][ret'.op \in {"recognize", "list_speakers", "consume"} =>
          (disk' = disk /\ root' = root)]_vars

\* A session's consume has run recognition over a stored model and
\* returned its score.
Wit_C34_ReadsLeaveStorage ==
    /\ ret.op = "consume" /\ ret.returned
    /\ DOMAIN ret.result.scores # {}
    /\ ModelFiles(disk) # {}

\* The assets of speaker s on the disk d: the model file and the metadata file.
AssetsOnDisk(d, s) == {p \in {ModelPath(s), MetadataPath(s)} : Exists(d, p)}

\* Speaker s was never enrolled, or was deleted after the last enrollment,
\* and no enrollment of s stopped half way.
NotEnrolled(s) == history[s].enrolled = 0 /\ history[s].half_written = 0

\* C35: delete_speaker for a speaker id that is not enrolled completes
\* without raising and leaves every stored model, metadata file and index
\* entry unchanged; when only one of the speaker's two assets exists, the
\* existing one is still removed.
Claim_C35_DeleteOfMissingSpeaker ==
    [][ret'.op = "delete_speaker" =>
          /\ ret'.raised = ""
          /\ NotEnrolled(ret'.speaker) => (disk' = disk /\ root' = root)
          /\ Cardinality(AssetsOnDisk(disk, ret'.speaker)) = 1 =>
                AssetsOnDisk(disk', ret'.speaker) = {}]_vars

\* C36 as stated: add_file with an absolute path or a path starting with
\* 'configs/' raises ValueError, and add_file with content that is neither
\* str nor bytes raises TypeError; in both cases no file is written and no
\* index record is inserted or changed.
Claim_C36_RefusedAddFile ==
    [][manager'.op = "add_file" =>
          /\ manager'.file_path \in RefusedPaths => manager'.raised = "ValueError"
          /\ manager'.file_content \in OtherContents => manager'.raised = "TypeError"
          /\ (manager'.file_path \in RefusedPaths \/ manager'.file_content \in OtherContents)
                => (manager'.disk = manager.disk /\ manager'.root = manager.root)]_vars

\* C36, amended: the path is checked first.  add_file with an absolute
\* path or a path starting with 'configs/' raises ValueError whatever the
\* content; with a path that is accepted and content that is neither str
\* nor bytes it raises TypeError; in both cases no file is written and no
\* index record is inserted or changed.
Thm_C36_RefusedAddFile ==
    [][manager'.op = "add_file" =>
          /\ manager'.file_path \in RefusedPaths => manager'.raised = "ValueError"
          /\ (manager'.file_path \notin RefusedPaths /\ manager'.file_content \in OtherContents)
                => manager'.raised = "TypeError"
          /\ (manager'.file_path \in RefusedPaths \/ manager'.file_content \in OtherContents)
                => (manager'.disk = manager.disk /\ manager'.root = manager.root)]_vars

\* add_file of configs/b.wav has raised ValueError on a store that holds
\* two files.
Wit_C36_RefusedAddFile ==
    /\ manager.op = "add_file"
    /\ manager.file_path = <<"configs/", "b", "wav">>
    /\ manager.raised = "ValueError"
    /\ Cardinality(DOMAIN manager.disk) = 2
    /\ manager.root # None

\* C37: whenever a streaming session invokes the recognition engine, the
\* buffered signal holds at least one frame length of samples as framing
\* computes it, so framing yields at least one frame and the outcome is
\* not the one of a signal too short to frame.
Thm_C37_SessionSignalFrames ==
    (ret.op = "consume" /\ ret.returned) =>
        LET config == sessions[ret.session].config
            signal == ret.passed
        IN  /\ Len(signal) >= to_samples(config.frame_size, config.sample_rate)
            /\ Len(frame_signal(apply_filter(signal), config)) >= 1
            /\ ~extract_features(signal, config).raised
            /\ ~ret.outcome.is_none

\* The session with a frame of 2.5 samples has invoked the engine on
\* exactly two samples, gathered from two chunks.
Wit_C37_SessionSignalFrames ==
    /\ ret.op = "consume" /\ ret.returned
    /\ ret.session = "s2"
    /\ Len(ret.passed) = 2
    /\ Len(sessions["s2"].frames) = 2

\* Frame i of the frames holds the signal positions (i - 1) * S + 1 to
\* (i - 1) * S + L in order, a position beyond the signal read as zero.
FramesHoldTheSignal(frames, signal, L, S) ==
    \A i \in 1..Len(frames) :
        /\ Len(frames[i]) = L
        /\ \A n \in 1..L :
              frames[i][n] = IF (i - 1) * S + n <= Len(signal)
                             THEN signal[(i - 1) * S + n] ELSE 0

\* C38: framing returns an F x L matrix, F = ceil((N - L) / S) + 1 clamped
\* to at least 1: every frame has exactly L samples, frame i holds the
\* signal positions i*S to i*S+L-1 (counted from 0) in order, positions at
\* or beyond N read as zero, and no sample value is altered.
Claim_C38_FramesAreSlices ==
    extraction.pc = "framed" =>
        LET N == Len(extraction.signal)
            L == to_samples(extraction.config.frame_size, extraction.config.sample_rate)
            S == to_samples(extraction.config.frame_step, extraction.config.sample_rate)
            F == IF ceil_div(N - L, S) + 1 < 1 THEN 1 ELSE ceil_div(N - L, S) + 1
        IN  /\ Len(extraction.frames) = F
            /\ FramesHoldTheSignal(extraction.frames, extraction.signal, L, S)

\* The commands of cli.main.
CliCommands == {"cli_enroll", "cli_recognize", "cli_list_speakers", "cli_delete_speaker"}

\* The paths the records of an index name.
IndexedPaths(tree) == {record.file_path : record \in RecordsOf(tree)}

\* The index the next process loads equals the index in memory at the end
\* of the command, and an empty index leaves no persisted file.
PersistedIndexIsTheIndex ==
    ret.op \in CliCommands =>
        /\ deserialize_bst(bst_file) = root
        /\ root = None => bst_file = <<>>

\* C39: after every CLI command the index is persisted, so that the index
\* the next process loads equals the index in memory at the end of the
\* command: every file the command wrote has a record in the index of the
\* next run, no file it removed has one, and an empty index removes the
\* persisted file.
Claim_C39_IndexPersisted ==
    [][ret'.op \in CliCommands =>
          LET next_run == deserialize_bst(bst_file')
          IN  /\ next_run = root'
              /\ \A p \in DOMAIN disk' \ DOMAIN disk : p \in IndexedPaths(next_run)
              /\ \A p \in DOMAIN disk \ DOMAIN disk' : p \notin IndexedPaths(next_run)
              /\ root' = None => bst_file' = <<>>]_vars

\* The capture callback can put a chunk: the stream is open and the source
\* has a chunk left to deliver.
CallbackHasAChunk == live.pc # "stopped" /\ Len(live.enqueued) < MaxChunks

\* The put of the callback is not waiting.
PutDoesNotBlock == CallbackHasAChunk => ENABLED (\E chunk \in LiveChunks : LivePut(chunk))

\* C40: under fair scheduling of the consumer loop every chunk the capture
\* callback enqueues is eventually passed to session.consume, and the
\* enqueue of the callback never blocks the capture thread.
Claim_C40_EveryChunkConsumed ==
    /\ \A i \in 1..MaxChunks : (Len(live.enqueued) >= i) ~> (Len(live.delivered) >= i)
    /\ []PutDoesNotBlock

\* C40, amended: under fair scheduling of the consumer loop every chunk the
\* capture callback enqueues is eventually passed to session.consume unless
\* the run is interrupted first, in which case the chunks still queued are
\* never consumed; the enqueue of the callback never blocks the capture
\* thread.
Thm_C40_EveryChunkConsumed ==
    /\ \A i \in 1..MaxChunks :
           (Len(live.enqueued) >= i) ~> (Len(live.delivered) >= i \/ live.pc = "stopped")
    /\ [][live.pc = "stopped" => live'.delivered = live.delivered]_vars
    /\ []PutDoesNotBlock

\* Chunks have been consumed while the callback kept putting chunks on a
\* queue that held some already.
Wit_C40_EveryChunkConsumed ==
    /\ live.pc = "consuming"
    /\ Len(live.delivered) >= 2
    /\ Len(live.audio_queue) >= 2

====
